---- MODULE Spec2Model ----
(***************************************************************************)
(* Model of the play-by-play analysis engine                               *)
(* (src/nba_processor/engines/espn_pbp_engine.py, ESPNPlayByPlayEngine)    *)
(* and of the cross-game aggregator                                        *)
(* (src/processors/player_stats_processor.py, PlayerStatsProcessor).       *)
(*                                                                         *)
(* Python values are modelled as follows:                                  *)
(*   - a str is a sequence of one-character strings ('' is <<>>);          *)
(*     names that are only compared and tested for emptiness (team,        *)
(*     team_side, player) are TLA+ strings, '' being "";                   *)
(*   - None is the value None below; Optional[x] results are <<>> (None)   *)
(*     or <<x>>;                                                           *)
(*   - a list is a sequence, a dict with fixed keys is a record; a key     *)
(*     that a dict lacks is a field that the record lacks;                 *)
(*   - in the aggregator every str is a sequence of characters, minutes    *)
(*     are kept in sixtieths, game scores and averages in tenths and       *)
(*     percentages in thousandths.                                         *)
(***************************************************************************)
EXTENDS Integers, Sequences, FiniteSets, TLC

VARIABLES espn_pbp, game_data, engine, pc, ret, games, processor, calls, fetch

vars == <<espn_pbp, game_data, engine, pc, ret, games, processor, calls, fetch>>

\* ------------------------------------------------------------------------
\* Bounds of the model
\* ------------------------------------------------------------------------
MaxPlays == 4

\* ------------------------------------------------------------------------
\* Python helpers
\* ------------------------------------------------------------------------
None == "None"

\* truthiness of an Optional[str] name: None and '' are falsy
Truthy(x) == x /= None /\ x /= ""

Digits == <<"0", "1", "2", "3", "4", "5", "6", "7", "8", "9">>

IsDigit(c) == \E d \in 1..10 : Digits[d] = c

DigitVal(c) == (CHOOSE d \in 1..10 : Digits[d] = c) - 1

\* str(n) for an int n
RECURSIVE IntStr(_)
IntStr(n) ==
    IF n < 0 THEN <<"-">> \o IntStr(-n)
    ELSE IF n < 10 THEN <<Digits[n + 1]>>
    ELSE IntStr(n \div 10) \o <<Digits[(n % 10) + 1]>>

\* a variant of ScoreStr that writes the home score first
ScoreStrHomeFirst(away_score, home_score) ==
    IntStr(home_score) \o <<"-">> \o IntStr(away_score)

\* f"{away_score}-{home_score}"
ScoreStr(away_score, home_score) ==
    IntStr(away_score) \o <<"-">> \o IntStr(home_score)

\* a variant of InsertByPoints that puts an element before those of equal
\* points, as an unstable sort may
RECURSIVE InsertByPointsBeforeEqual(_, _)
InsertByPointsBeforeEqual(sorted, x) ==
    IF sorted = <<>> THEN <<x>>
    ELSE IF Head(sorted).points > x.points
         THEN <<Head(sorted)>> \o InsertByPointsBeforeEqual(Tail(sorted), x)
         ELSE <<x>> \o sorted

\* list.sort(key=lambda x: x['points'], reverse=True): a stable sort, so
\* elements of equal points keep their order
RECURSIVE InsertByPoints(_, _)
InsertByPoints(sorted, x) ==
    IF sorted = <<>> THEN <<x>>
    ELSE IF Head(sorted).points >= x.points
         THEN <<Head(sorted)>> \o InsertByPoints(Tail(sorted), x)
         ELSE <<x>> \o sorted

\* a variant of SortByPointsDesc that leaves the list in the order of the game
SortByPointsKeepOrder(list) == list

RECURSIVE SortByPointsDesc(_)
SortByPointsDesc(list) ==
    IF list = <<>> THEN <<>>
    ELSE InsertByPoints(SortByPointsDesc(SubSeq(list, 1, Len(list) - 1)),
                        list[Len(list)])

\* ------------------------------------------------------------------------
\* Plays as dicts.  A play is a record; a key the dict lacks is a field the
\* record lacks.  play.get(key, default) never fails; play[key] raises
\* KeyError when the key is absent.
\* ------------------------------------------------------------------------
HasKey(play, key) == key \in DOMAIN play

Get(play, key, default) == IF HasKey(play, key) THEN play[key] ELSE default

\* The play as the analyses read it: a key read with .get carries the
\* default of that call when absent (.get('scoring_play') gives None, which
\* is false).  The keys away_score, home_score, period are only ever read by
\* subscript; their absent value is a placeholder that no analysis reads,
\* because the subscript raises first.
WithDefaults(play) ==
    [time |-> Get(play, "time", <<>>),
     period |-> Get(play, "period", 0),
     team |-> Get(play, "team", ""),
     team_side |-> Get(play, "team_side", ""),
     player |-> Get(play, "player", ""),
     text |-> Get(play, "text", <<>>),
     play_type |-> Get(play, "play_type", <<>>),
     scoring_play |-> Get(play, "scoring_play", FALSE),
     score_value |-> Get(play, "score_value", 0),
     away_score |-> Get(play, "away_score", 0),
     home_score |-> Get(play, "home_score", 0)]

PlaysWithDefaults(plays) == [i \in 1..Len(plays) |-> WithDefaults(plays[i])]

\* the subscripts of an iteration find their keys
Subscriptable(play, keys) == \A key \in keys : HasKey(play, key)

KeyError == "KeyError"

\* what a call leaves behind: the value it returns or the exception it raises
Outcome(op, arg, raises, value) ==
    IF raises
    THEN [op |-> op, arg |-> arg, value |-> <<>>, raised |-> KeyError]
    ELSE [op |-> op, arg |-> arg, value |-> value, raised |-> None]

\* ------------------------------------------------------------------------
\* ESPNPlayByPlayEngine.__init__
\* ------------------------------------------------------------------------
WinnerSideAlwaysFinal(actual_away_score, actual_home_score, final_away, final_home) ==
    IF final_home > final_away THEN "home" ELSE "away"

winner_side(actual_away_score, actual_home_score, final_away, final_home) ==
    IF actual_away_score > 0 \/ actual_home_score > 0
    THEN (IF actual_home_score > actual_away_score THEN "home" ELSE "away")
    ELSE (IF final_home > final_away THEN "home" ELSE "away")

\* no PlayerStatsProcessor has been constructed
NoProcessor == [constructed |-> FALSE]

\* fetch_url has not been called
NoFetch == [state |-> "idle", max_retries |-> 0, attempt |-> 0, responses |-> <<>>,
            slept |-> 0]

NoEngine ==
    [plays |-> <<>>, away_team |-> "", home_team |-> "",
     final_away |-> 0, final_home |-> 0,
     winner_side |-> "", winner_team |-> ""]

EngineInit ==
    /\ pc = "new"
    /\ LET ws == winner_side(game_data.basic_info.away_score,
                             game_data.basic_info.home_score,
                             espn_pbp.away_score, espn_pbp.home_score)
       IN engine' = [plays |-> espn_pbp.plays,
                     away_team |-> espn_pbp.away_team,
                     home_team |-> espn_pbp.home_team,
                     final_away |-> espn_pbp.away_score,
                     final_home |-> espn_pbp.home_score,
                     winner_side |-> ws,
                     winner_team |-> IF ws = "home" THEN espn_pbp.home_team
                                     ELSE espn_pbp.away_team]
    /\ pc' = "ready"
    /\ UNCHANGED <<fetch, espn_pbp, game_data, ret, games, processor, calls>>

\* ------------------------------------------------------------------------
\* analyze_team_scoring_runs
\* ------------------------------------------------------------------------
EmptyRun ==
    [team |-> None, team_side |-> None, points |-> 0,
     start_time |-> <<>>, end_time |-> <<>>,
     start_period |-> 0, end_period |-> 0,
     start_score |-> <<>>, end_score |-> <<>>]

\* if current_run['team'] and current_run['points'] >= min_points: runs.append(...)
FlushRun(runs, current_run, min_points) ==
    IF Truthy(current_run.team) /\ current_run.points >= min_points
    THEN Append(runs, current_run)
    ELSE runs

\* a variant of RunStep in which a scoring play that cannot be attributed
\* only advances the previous-score snapshot and leaves the open run open
RunStepBreakKeepsRun(st, play, min_points) ==
    IF ~play.scoring_play THEN st
    ELSE
    LET away_scored == play.away_score - st.prev_away
        home_scored == play.home_score - st.prev_home
        attributed  == \/ (play.team_side = "away" /\ away_scored > 0)
                       \/ (play.team_side = "home" /\ home_scored > 0)
        points      == IF play.team_side = "away" THEN away_scored ELSE home_scored
    IN IF ~attributed
       THEN [st EXCEPT !.prev_away = play.away_score, !.prev_home = play.home_score]
       ELSE IF st.current_run.team_side = play.team_side
       THEN [runs |-> st.runs,
             current_run |-> [st.current_run EXCEPT
                                !.points = @ + points,
                                !.end_time = play.time,
                                !.end_period = play.period,
                                !.end_score = ScoreStr(play.away_score, play.home_score)],
             prev_away |-> play.away_score, prev_home |-> play.home_score]
       ELSE [runs |-> FlushRun(st.runs, st.current_run, min_points),
             current_run |-> [team |-> play.team, team_side |-> play.team_side,
                              points |-> points,
                              start_time |-> play.time, end_time |-> play.time,
                              start_period |-> play.period, end_period |-> play.period,
                              start_score |-> ScoreStr(st.prev_away, st.prev_home),
                              end_score |-> ScoreStr(play.away_score, play.home_score)],
             prev_away |-> play.away_score, prev_home |-> play.home_score]

\* one iteration of the loop over self.plays
RunStep(st, play, min_points) ==
    IF ~play.scoring_play THEN st
    ELSE
    LET away_scored == play.away_score - st.prev_away
        home_scored == play.home_score - st.prev_home
        attributed  == \/ (play.team_side = "away" /\ away_scored > 0)
                       \/ (play.team_side = "home" /\ home_scored > 0)
        points      == IF play.team_side = "away" THEN away_scored ELSE home_scored
    IN IF ~attributed
       THEN [runs |-> FlushRun(st.runs, st.current_run, min_points),
             current_run |-> EmptyRun,
             prev_away |-> play.away_score, prev_home |-> play.home_score]
       ELSE IF st.current_run.team_side = play.team_side
       THEN [runs |-> st.runs,
             current_run |-> [st.current_run EXCEPT
                                !.points = @ + points,
                                !.end_time = play.time,
                                !.end_period = play.period,
                                !.end_score = ScoreStr(play.away_score, play.home_score)],
             prev_away |-> play.away_score, prev_home |-> play.home_score]
       ELSE [runs |-> FlushRun(st.runs, st.current_run, min_points),
             current_run |-> [team |-> play.team, team_side |-> play.team_side,
                              points |-> points,
                              start_time |-> play.time, end_time |-> play.time,
                              start_period |-> play.period, end_period |-> play.period,
                              start_score |-> ScoreStr(st.prev_away, st.prev_home),
                              end_score |-> ScoreStr(play.away_score, play.home_score)],
             prev_away |-> play.away_score, prev_home |-> play.home_score]

RECURSIVE RunLoop(_, _, _)
RunLoop(plays, n, min_points) ==
    IF n = 0
    THEN [runs |-> <<>>, current_run |-> EmptyRun, prev_away |-> 0, prev_home |-> 0]
    ELSE RunStep(RunLoop(plays, n - 1, min_points), plays[n], min_points)

analyze_team_scoring_runs(plays, min_points) ==
    IF plays = <<>> THEN <<>>
    ELSE LET st == RunLoop(plays, Len(plays), min_points)
         IN SortByPointsDesc(FlushRun(st.runs, st.current_run, min_points))

\* some iteration of the first n raises KeyError: an iteration raises when
\* the play lacks a key it reads by subscript (lines 83-84, 106-107, 114-117)
RECURSIVE RunRaises(_, _, _)
RunRaises(plays, n, min_points) ==
    IF n = 0 THEN FALSE
    ELSE LET st == RunLoop(PlaysWithDefaults(plays), n - 1, min_points)
             play == WithDefaults(plays[n])
             away_scored == play.away_score - st.prev_away
             home_scored == play.home_score - st.prev_home
             attributed  == \/ (play.team_side = "away" /\ away_scored > 0)
                            \/ (play.team_side = "home" /\ home_scored > 0)
             subscripts ==
                 IF ~play.scoring_play THEN {}
                 ELSE {"away_score", "home_score"}
                         \cup (IF ~attributed THEN {}
                               ELSE IF st.current_run.team_side = play.team_side
                               THEN {"time", "period"}
                               ELSE {"team", "time", "period"})
         IN \/ RunRaises(plays, n - 1, min_points)
            \/ ~Subscriptable(plays[n], subscripts)

AnalyzeTeamScoringRuns(min_points) ==
    /\ pc = "ready"
    /\ ret' = Outcome("team_scoring_runs", min_points,
                      RunRaises(engine.plays, Len(engine.plays), min_points),
                      analyze_team_scoring_runs(PlaysWithDefaults(engine.plays),
                                                min_points))
    /\ UNCHANGED <<fetch, espn_pbp, game_data, engine, pc, games, processor, calls>>

\* ------------------------------------------------------------------------
\* analyze_player_point_streaks
\* ------------------------------------------------------------------------
EmptyStreak ==
    [player |-> None, team |-> None, team_side |-> None, points |-> 0,
     start_time |-> <<>>, end_time |-> <<>>,
     start_period |-> 0, end_period |-> 0,
     start_score |-> <<>>, end_score |-> <<>>]

\* if current_streak['player'] and current_streak['points'] >= min_points: ...
FlushStreak(streaks, current_streak, min_points) ==
    IF Truthy(current_streak.player) /\ current_streak.points >= min_points
    THEN Append(streaks, current_streak)
    ELSE streaks

StreakPointsValueOnly(play, prev_away, prev_home) ==
    play.score_value

\* points = play.get('score_value', 0); if points == 0: points = <score delta>
StreakPoints(play, prev_away, prev_home) ==
    IF play.score_value = 0
    THEN (play.away_score - prev_away) + (play.home_score - prev_home)
    ELSE play.score_value

StreakStepBreakOnAnyPlayer(st, play, min_points) ==
    IF ~play.scoring_play THEN st
    ELSE
    LET points == StreakPoints(play, st.prev_away, st.prev_home)
    IN IF ~Truthy(play.player)
       THEN [st EXCEPT !.prev_away = play.away_score, !.prev_home = play.home_score]
       ELSE IF st.current_streak.player = play.player
       THEN [streaks |-> st.streaks,
             current_streak |-> [st.current_streak EXCEPT
                                   !.points = @ + points,
                                   !.end_time = play.time,
                                   !.end_period = play.period,
                                   !.end_score = ScoreStr(play.away_score, play.home_score)],
             prev_away |-> play.away_score, prev_home |-> play.home_score]
       ELSE [streaks |-> FlushStreak(st.streaks, st.current_streak, min_points),
             current_streak |-> [player |-> play.player, team |-> play.team,
                                 team_side |-> play.team_side,
                                 points |-> points,
                                 start_time |-> play.time, end_time |-> play.time,
                                 start_period |-> play.period, end_period |-> play.period,
                                 start_score |-> ScoreStr(st.prev_away, st.prev_home),
                                 end_score |-> ScoreStr(play.away_score, play.home_score)],
             prev_away |-> play.away_score, prev_home |-> play.home_score]

\* one iteration of the loop over self.plays
StreakStep(st, play, min_points) ==
    IF ~play.scoring_play THEN st
    ELSE
    LET points == StreakPoints(play, st.prev_away, st.prev_home)
    IN IF ~Truthy(play.player) \/ points <= 0
       THEN [st EXCEPT !.prev_away = play.away_score, !.prev_home = play.home_score]
       ELSE IF st.current_streak.player = play.player
       THEN [streaks |-> st.streaks,
             current_streak |-> [st.current_streak EXCEPT
                                   !.points = @ + points,
                                   !.end_time = play.time,
                                   !.end_period = play.period,
                                   !.end_score = ScoreStr(play.away_score, play.home_score)],
             prev_away |-> play.away_score, prev_home |-> play.home_score]
       ELSE [streaks |-> FlushStreak(st.streaks, st.current_streak, min_points),
             current_streak |-> [player |-> play.player, team |-> play.team,
                                 team_side |-> play.team_side,
                                 points |-> points,
                                 start_time |-> play.time, end_time |-> play.time,
                                 start_period |-> play.period, end_period |-> play.period,
                                 start_score |-> ScoreStr(st.prev_away, st.prev_home),
                                 end_score |-> ScoreStr(play.away_score, play.home_score)],
             prev_away |-> play.away_score, prev_home |-> play.home_score]

\* the loop state after the first n plays
RECURSIVE StreakLoop(_, _, _)
StreakLoop(plays, n, min_points) ==
    IF n = 0
    THEN [streaks |-> <<>>, current_streak |-> EmptyStreak,
          prev_away |-> 0, prev_home |-> 0]
    ELSE StreakStep(StreakLoop(plays, n - 1, min_points), plays[n], min_points)

analyze_player_point_streaks(plays, min_points) ==
    IF plays = <<>> THEN <<>>
    ELSE LET st == StreakLoop(plays, Len(plays), min_points)
         IN SortByPointsDesc(FlushStreak(st.streaks, st.current_streak, min_points))

\* some iteration of the first n raises KeyError: an iteration raises when
\* the play lacks a key it reads by subscript (lines 157-158, 171-172, 179-182)
RECURSIVE StreakRaises(_, _, _)
StreakRaises(plays, n, min_points) ==
    IF n = 0 THEN FALSE
    ELSE LET st == StreakLoop(PlaysWithDefaults(plays), n - 1, min_points)
             play == WithDefaults(plays[n])
             subscripts ==
                 IF ~play.scoring_play THEN {}
                 ELSE {"away_score", "home_score"}
                         \cup (IF ~Truthy(play.player)
                                  \/ StreakPoints(play, st.prev_away, st.prev_home) <= 0
                               THEN {}
                               ELSE IF st.current_streak.player = play.player
                               THEN {"time", "period"}
                               ELSE {"team", "time", "period"})
         IN \/ StreakRaises(plays, n - 1, min_points)
            \/ ~Subscriptable(plays[n], subscripts)

AnalyzePlayerPointStreaks(min_points) ==
    /\ pc = "ready"
    /\ ret' = Outcome("player_point_streaks", min_points,
                      StreakRaises(engine.plays, Len(engine.plays), min_points),
                      analyze_player_point_streaks(PlaysWithDefaults(engine.plays),
                                                   min_points))
    /\ UNCHANGED <<fetch, espn_pbp, game_data, engine, pc, games, processor, calls>>

\* ------------------------------------------------------------------------
\* analyze_biggest_comeback
\* ------------------------------------------------------------------------
DeficitOfLoser(side, play) ==
    LET margin == play.away_score - play.home_score
    IN IF side = "away"
       THEN (IF margin > 0 THEN margin ELSE 0)
       ELSE (IF margin < 0 THEN -margin ELSE 0)

\* the deficit of the winner side at a play
Deficit(side, play) ==
    LET margin == play.away_score - play.home_score
    IN IF side = "away"
       THEN (IF margin < 0 THEN -margin ELSE 0)
       ELSE (IF margin > 0 THEN margin ELSE 0)

\* one iteration of the loop over self.plays
ComebackStep(st, play, side) ==
    IF Deficit(side, play) > st.max_deficit
    THEN [max_deficit |-> Deficit(side, play),
          max_deficit_time |-> play.time,
          max_deficit_period |-> play.period,
          max_deficit_score |-> ScoreStr(play.away_score, play.home_score)]
    ELSE st

RECURSIVE ComebackLoop(_, _, _)
ComebackLoop(plays, n, side) ==
    IF n = 0
    THEN [max_deficit |-> 0, max_deficit_time |-> <<>>,
          max_deficit_period |-> 0, max_deficit_score |-> <<>>]
    ELSE ComebackStep(ComebackLoop(plays, n - 1, side), plays[n], side)

ComebackRecordFlagFromFinal(self, st) ==
    [team |-> self.winner_team, team_side |-> self.winner_side,
     deficit |-> st.max_deficit,
     deficit_time |-> st.max_deficit_time,
     deficit_period |-> st.max_deficit_period,
     deficit_score |-> st.max_deficit_score,
     won |-> TRUE,
     never_trailed |-> Deficit(self.winner_side,
                               [away_score |-> self.final_away,
                                home_score |-> self.final_home]) = 0,
     final_score |-> ScoreStr(self.final_away, self.final_home)]

\* the two return statements after the loop
ComebackRecord(self, st) ==
    IF st.max_deficit = 0
    THEN [team |-> self.winner_team, team_side |-> self.winner_side,
          deficit |-> 0, deficit_time |-> <<>>, deficit_period |-> 0,
          deficit_score |-> <<>>, won |-> TRUE, never_trailed |-> TRUE,
          final_score |-> ScoreStr(self.final_away, self.final_home)]
    ELSE [team |-> self.winner_team, team_side |-> self.winner_side,
          deficit |-> st.max_deficit,
          deficit_time |-> st.max_deficit_time,
          deficit_period |-> st.max_deficit_period,
          deficit_score |-> st.max_deficit_score,
          won |-> TRUE, never_trailed |-> FALSE,
          final_score |-> ScoreStr(self.final_away, self.final_home)]

analyze_biggest_comeback(self) ==
    IF self.plays = <<>> THEN <<>>
    ELSE <<ComebackRecord(self, ComebackLoop(self.plays, Len(self.plays),
                                             self.winner_side))>>

\* the engine reading its plays through WithDefaults
SelfWithDefaults(self) == [self EXCEPT !.plays = PlaysWithDefaults(@)]

\* some iteration of the first n raises KeyError: an iteration raises when
\* the play lacks a key it reads by subscript (lines 207-208, 218-219)
RECURSIVE ComebackRaises(_, _, _)
ComebackRaises(plays, n, side) ==
    IF n = 0 THEN FALSE
    ELSE LET st == ComebackLoop(PlaysWithDefaults(plays), n - 1, side)
             play == WithDefaults(plays[n])
             subscripts ==
                 {"away_score", "home_score"}
                    \cup (IF Deficit(side, play) > st.max_deficit
                          THEN {"time", "period"} ELSE {})
         IN \/ ComebackRaises(plays, n - 1, side)
            \/ ~Subscriptable(plays[n], subscripts)

AnalyzeBiggestComeback ==
    /\ pc = "ready"
    /\ ret' = Outcome("biggest_comeback", 0,
                      ComebackRaises(engine.plays, Len(engine.plays), engine.winner_side),
                      analyze_biggest_comeback(SelfWithDefaults(engine)))
    /\ UNCHANGED <<fetch, espn_pbp, game_data, engine, pc, games, processor, calls>>

\* ------------------------------------------------------------------------
\* _parse_time_minutes
\* ------------------------------------------------------------------------
\* the last position of the run of digits of s that starts at position i
\* (i - 1 when s[i] is no digit): the greedy match of \d+
RECURSIVE DigitRunEnd(_, _)
DigitRunEnd(s, i) ==
    IF i <= Len(s) /\ IsDigit(s[i]) THEN DigitRunEnd(s, i + 1) ELSE i - 1

\* int(s[i..j]) for a run of digits
RECURSIVE IntOf(_, _, _)
IntOf(s, i, j) ==
    IF j < i THEN 0 ELSE 10 * IntOf(s, i, j - 1) + DigitVal(s[j])

ParseTimeUnparseableIsZero(time_str) ==
    LET m_end == DigitRunEnd(time_str, 1)
        s_end == DigitRunEnd(time_str, m_end + 2)
    IN IF time_str = <<>> THEN <<0>>
       ELSE IF m_end < 1 THEN <<0>>
       ELSE IF m_end + 1 > Len(time_str) \/ time_str[m_end + 1] /= ":" THEN <<0>>
       ELSE IF s_end < m_end + 2 THEN <<0>>
       ELSE <<60 * IntOf(time_str, 1, m_end) + IntOf(time_str, m_end + 2, s_end)>>

\* re.match(r'(\d+):(\d+)', time_str); the result int(m) + int(s) / 60.0 is
\* kept in sixtieths of a minute, 60 * int(m) + int(s); <<>> is None
parse_time_minutes(time_str) ==
    LET m_end == DigitRunEnd(time_str, 1)
        s_end == DigitRunEnd(time_str, m_end + 2)
    IN IF time_str = <<>> THEN <<>>
       ELSE IF m_end < 1 THEN <<>>
       ELSE IF m_end + 1 > Len(time_str) \/ time_str[m_end + 1] /= ":" THEN <<>>
       ELSE IF s_end < m_end + 2 THEN <<>>
       ELSE <<60 * IntOf(time_str, 1, m_end) + IntOf(time_str, m_end + 2, s_end)>>

\* minutes < limit for a parsed time and an int limit
MinutesBelow(minutes, limit) == minutes[1] < 60 * limit

\* ------------------------------------------------------------------------
\* analyze_clutch_scoring
\* ------------------------------------------------------------------------
\* Python's  sub in s  for two strings
Contains(sub, s) ==
    \E i \in 1..(Len(s) - Len(sub) + 1) : SubSeq(s, i, i + Len(sub) - 1) = sub

FinalPeriod == 4

\* a variant of AddMake that counts a three-pointer apart from the field goals
AddMakeThreeApart(stats, points, play_type) ==
    LET with_points == [stats EXCEPT !.points = @ + points]
    IN IF Contains(<<"f", "t">>, play_type)
          \/ Contains(<<"f", "r", "e", "e", "_", "t", "h", "r", "o", "w">>, play_type)
       THEN [with_points EXCEPT !.ft = @ + 1]
       ELSE IF Contains(<<"t", "h", "r", "e", "e">>, play_type)
       THEN [with_points EXCEPT !.three = @ + 1]
       ELSE IF Contains(<<"m", "a", "d", "e">>, play_type)
       THEN [with_points EXCEPT !.fg = @ + 1]
       ELSE with_points

\* the stats of a play's type tag added to a player's entry
AddMake(stats, points, play_type) ==
    LET with_points == [stats EXCEPT !.points = @ + points]
    IN IF Contains(<<"f", "t">>, play_type)
          \/ Contains(<<"f", "r", "e", "e", "_", "t", "h", "r", "o", "w">>, play_type)
       THEN [with_points EXCEPT !.ft = @ + 1]
       ELSE IF Contains(<<"t", "h", "r", "e", "e">>, play_type)
       THEN [with_points EXCEPT !.fg = @ + 1, !.three = @ + 1]
       ELSE IF Contains(<<"m", "a", "d", "e">>, play_type)
       THEN [with_points EXCEPT !.fg = @ + 1]
       ELSE with_points

\* clutch_stats[team_side] is a dict keyed by player; it is kept as the
\* sequence of its values in insertion order
HasPlayer(entries, player) == \E i \in 1..Len(entries) : entries[i].player = player

AddToPlayer(entries, player, points, play_type) ==
    LET all == IF HasPlayer(entries, player) THEN entries
               ELSE Append(entries, [player |-> player, points |-> 0,
                                     fg |-> 0, ft |-> 0, three |-> 0])
    IN [i \in 1..Len(all) |->
           IF all[i].player = player THEN AddMake(all[i], points, play_type)
           ELSE all[i]]

\* one iteration of the loop over self.plays
ClutchStep(st, play, final_minutes) ==
    LET minutes == parse_time_minutes(play.time)
    IN IF play.period /= FinalPeriod THEN st
       ELSE IF minutes = <<>> \/ ~MinutesBelow(minutes, final_minutes) THEN st
       ELSE IF ~play.scoring_play THEN st
       ELSE IF ~Truthy(play.player) \/ ~Truthy(play.team_side) \/ play.score_value = 0
       THEN st
       ELSE IF play.team_side = "away"
       THEN [st EXCEPT !.away = AddToPlayer(@, play.player, play.score_value,
                                            play.play_type)]
       ELSE [st EXCEPT !.home = AddToPlayer(@, play.player, play.score_value,
                                            play.play_type)]

RECURSIVE ClutchLoop(_, _, _)
ClutchLoop(plays, n, final_minutes) ==
    IF n = 0 THEN [away |-> <<>>, home |-> <<>>]
    ELSE ClutchStep(ClutchLoop(plays, n - 1, final_minutes), plays[n], final_minutes)

analyze_clutch_scoring(plays, final_minutes) ==
    IF plays = <<>> THEN [away |-> <<>>, home |-> <<>>]
    ELSE LET st == ClutchLoop(plays, Len(plays), final_minutes)
         IN [away |-> SortByPointsDesc(st.away), home |-> SortByPointsDesc(st.home)]

\* some iteration of the first n raises KeyError: every iteration reads
\* the period by subscript (line 252) and every other key with .get
RECURSIVE ClutchRaises(_, _)
ClutchRaises(plays, n) ==
    IF n = 0 THEN FALSE
    ELSE ClutchRaises(plays, n - 1) \/ ~Subscriptable(plays[n], {"period"})

AnalyzeClutchScoring(final_minutes) ==
    /\ pc = "ready"
    /\ ret' = Outcome("clutch_scoring", final_minutes,
                      ClutchRaises(engine.plays, Len(engine.plays)),
                      analyze_clutch_scoring(PlaysWithDefaults(engine.plays),
                                             final_minutes))
    /\ UNCHANGED <<fetch, espn_pbp, game_data, engine, pc, games, processor, calls>>

\* ------------------------------------------------------------------------
\* analyze_game_winning_shots
\* ------------------------------------------------------------------------
ShotInfo(play) ==
    [player |-> play.player, team |-> play.team, team_side |-> play.team_side,
     time |-> play.time, period |-> play.period, points |-> play.score_value,
     play_type |-> play.play_type,
     score |-> ScoreStr(play.away_score, play.home_score),
     text |-> play.text]

\* a variant of IsGoAhead that takes a basket that breaks a tie for none
IsGoAheadFromBehind(play, prev_away, prev_home, side) ==
    LET prev_margin == prev_away - prev_home
        curr_margin == play.away_score - play.home_score
    IN IF play.team_side = "away" /\ side = "away"
       THEN prev_margin < 0 /\ curr_margin > 0
       ELSE IF play.team_side = "home" /\ side = "home"
       THEN prev_margin > 0 /\ curr_margin < 0
       ELSE FALSE

\* is_go_ahead for a scoring play, side being self.winner_side
IsGoAhead(play, prev_away, prev_home, side) ==
    LET prev_margin == prev_away - prev_home
        curr_margin == play.away_score - play.home_score
    IN IF play.team_side = "away" /\ side = "away"
       THEN prev_margin <= 0 /\ curr_margin > 0
       ELSE IF play.team_side = "home" /\ side = "home"
       THEN prev_margin >= 0 /\ curr_margin < 0
       ELSE FALSE

InClutchWindowAnyPeriod(play) ==
    LET minutes == parse_time_minutes(play.time)
    IN minutes /= <<>> /\ MinutesBelow(minutes, 2)

\* the test that makes a go-ahead play the clutch_go_ahead
InClutchWindow(play) ==
    /\ play.period = FinalPeriod
    /\ LET minutes == parse_time_minutes(play.time)
       IN minutes /= <<>> /\ MinutesBelow(minutes, 2)

ShotStepFirstGoAhead(st, play, side) ==
    IF ~play.scoring_play
    THEN [st EXCEPT !.prev_away = play.away_score, !.prev_home = play.home_score]
    ELSE IF IsGoAhead(play, st.prev_away, st.prev_home, side)
    THEN [last_go_ahead |-> IF st.last_go_ahead = <<>> THEN <<ShotInfo(play)>>
                            ELSE st.last_go_ahead,
          clutch_go_ahead |-> IF InClutchWindow(play) /\ st.clutch_go_ahead = <<>>
                              THEN <<ShotInfo(play)>>
                              ELSE st.clutch_go_ahead,
          prev_away |-> play.away_score, prev_home |-> play.home_score]
    ELSE [st EXCEPT !.prev_away = play.away_score, !.prev_home = play.home_score]

\* one iteration of the loop over self.plays
ShotStep(st, play, side) ==
    IF ~play.scoring_play
    THEN [st EXCEPT !.prev_away = play.away_score, !.prev_home = play.home_score]
    ELSE IF IsGoAhead(play, st.prev_away, st.prev_home, side)
    THEN [last_go_ahead |-> <<ShotInfo(play)>>,
          clutch_go_ahead |-> IF InClutchWindow(play) THEN <<ShotInfo(play)>>
                              ELSE st.clutch_go_ahead,
          prev_away |-> play.away_score, prev_home |-> play.home_score]
    ELSE [st EXCEPT !.prev_away = play.away_score, !.prev_home = play.home_score]

RECURSIVE ShotLoop(_, _, _)
ShotLoop(plays, n, side) ==
    IF n = 0
    THEN [last_go_ahead |-> <<>>, clutch_go_ahead |-> <<>>,
          prev_away |-> 0, prev_home |-> 0]
    ELSE ShotStep(ShotLoop(plays, n - 1, side), plays[n], side)

analyze_game_winning_shots(self) ==
    IF self.plays = <<>> THEN [clutch_go_ahead |-> <<>>, decisive_shot |-> <<>>]
    ELSE LET st == ShotLoop(self.plays, Len(self.plays), self.winner_side)
         IN [clutch_go_ahead |-> st.clutch_go_ahead,
             decisive_shot |-> st.last_go_ahead]

\* some iteration of the first n raises KeyError: an iteration raises when
\* the play lacks a key it reads by subscript (lines 309-310, 313-314,
\* 333-334, 342-343); player, team, score_value, play_type and text are
\* read with .get
RECURSIVE ShotRaises(_, _, _)
ShotRaises(plays, n, side) ==
    IF n = 0 THEN FALSE
    ELSE LET st == ShotLoop(PlaysWithDefaults(plays), n - 1, side)
             play == WithDefaults(plays[n])
             subscripts ==
                 {"away_score", "home_score"}
                    \cup (IF play.scoring_play
                             /\ IsGoAhead(play, st.prev_away, st.prev_home, side)
                          THEN {"time", "period"}
                          ELSE {})
         IN \/ ShotRaises(plays, n - 1, side)
            \/ ~Subscriptable(plays[n], subscripts)

AnalyzeGameWinningShots ==
    /\ pc = "ready"
    /\ ret' = Outcome("game_winning_shots", 0,
                      ShotRaises(engine.plays, Len(engine.plays), engine.winner_side),
                      analyze_game_winning_shots(SelfWithDefaults(engine)))
    /\ UNCHANGED <<fetch, espn_pbp, game_data, engine, pc, games, processor, calls>>

\* ------------------------------------------------------------------------
\* Inputs: the play list as parse_espn_plays builds it.  An event carries
\* the fields of one play and the change of the two cumulative scores
\* since the previous play.
\* ------------------------------------------------------------------------
Clock(m1, s1, s2) == <<m1, ":", s1, s2>>

\* type tags of _classify_espn_play
MadeThree == <<"m", "a", "d", "e", "_", "t", "h", "r", "e", "e">>

MadeFt == <<"m", "a", "d", "e", "_", "f", "t">>

MadeFg == <<"m", "a", "d", "e", "_", "f", "g">>

ReboundTag == <<"r", "e", "b", "o", "u", "n", "d">>

OtherTag == <<"o", "t", "h", "e", "r">>

\* the text of a play; parse_espn_plays drops plays without text
PlayText == <<"p", "l", "a", "y">>

Ev(scoring_play, team_side, team, player, score_value, da, dh, period, time, play_type) ==
    [scoring_play |-> scoring_play, team_side |-> team_side, team |-> team,
     player |-> player, score_value |-> score_value, da |-> da, dh |-> dh,
     period |-> period, time |-> time, play_type |-> play_type]

RECURSIVE SumField(_, _, _)
SumField(evs, n, side) ==
    IF n = 0 THEN 0
    ELSE SumField(evs, n - 1, side) + (IF side = "away" THEN evs[n].da ELSE evs[n].dh)

BuildPlays(evs) ==
    [i \in 1..Len(evs) |->
        [time |-> evs[i].time, period |-> evs[i].period,
         team |-> evs[i].team, team_side |-> evs[i].team_side,
         player |-> evs[i].player, text |-> PlayText,
         play_type |-> evs[i].play_type,
         scoring_play |-> evs[i].scoring_play,
         score_value |-> evs[i].score_value,
         away_score |-> SumField(evs, i, "away"),
         home_score |-> SumField(evs, i, "home")]]

\* the dict parse_espn_plays returns: the final scores are the last play's
ParsedPbp(plays) ==
    [plays |-> plays, away_team |-> "AWY", home_team |-> "HOM",
     away_score |-> IF plays = <<>> THEN 0 ELSE plays[Len(plays)].away_score,
     home_score |-> IF plays = <<>> THEN 0 ELSE plays[Len(plays)].home_score]

GameData(away_score, home_score) ==
    [basic_info |-> [away_score |-> away_score, home_score |-> home_score]]

NoRet == [op |-> "none", arg |-> 0, value |-> <<>>, raised |-> None]

NonNegScores(plays) ==
    \A i \in 1..Len(plays) : plays[i].away_score >= 0 /\ plays[i].home_score >= 0

InitWith(Events, max_plays) ==
    /\ \E n \in 0..max_plays : \E evs \in [1..n -> Events] :
          /\ NonNegScores(BuildPlays(evs))
          /\ espn_pbp = ParsedPbp(BuildPlays(evs))
    /\ engine = NoEngine
    /\ pc = "new"
    /\ ret = NoRet
    /\ games = <<>>
    /\ processor = NoProcessor
    /\ fetch = NoFetch
    /\ calls = 0

\* ------------------------------------------------------------------------
\* Specification of the team scoring runs
\* ------------------------------------------------------------------------
DefaultRunMinPoints == 8

RunMinPoints == {5, DefaultRunMinPoints}

RunEvents ==
    { Ev(TRUE, "away", "AWY", "A", 3, 3, 0, 1, Clock("9", "0", "0"), MadeThree),
      Ev(TRUE, "away", "AWY", "A", 2, 2, 0, 1, Clock("8", "0", "0"), MadeFg),
      Ev(TRUE, "home", "HOM", "B", 2, 0, 2, 1, Clock("7", "0", "0"), MadeFg),
      Ev(TRUE, "home", "HOM", "B", 3, 0, 3, 2, Clock("6", "0", "0"), MadeThree),
      \* a non-scoring play
      Ev(FALSE, "home", "HOM", "B", 0, 0, 0, 2, Clock("5", "0", "0"), ReboundTag),
      \* a non-scoring play after which the home score is higher
      Ev(FALSE, "home", "HOM", "B", 0, 0, 2, 2, Clock("4", "0", "0"), OtherTag),
      \* a scoring play of no known team
      Ev(TRUE, "", "", "A", 2, 2, 0, 3, Clock("3", "0", "0"), MadeFg),
      \* a scoring play of a known side whose team has no display name
      Ev(TRUE, "away", "", "A", 3, 3, 0, 3, Clock("2", "0", "0"), MadeThree),
      \* a scoring play declared for the side whose score did not rise
      Ev(TRUE, "home", "HOM", "B", 2, 2, 0, 3, Clock("1", "0", "0"), MadeFg),
      \* a score correction
      Ev(TRUE, "away", "AWY", "A", 0, -2, 0, 4, Clock("0", "3", "0"), OtherTag) }

InitRuns ==
    /\ InitWith(RunEvents, MaxPlays)
    /\ game_data = GameData(espn_pbp.away_score, espn_pbp.home_score)

NextRuns ==
    \/ EngineInit
    \/ \E m \in RunMinPoints : AnalyzeTeamScoringRuns(m)

SpecRuns == InitRuns /\ [][NextRuns]_vars

\* ------------------------------------------------------------------------
\* Specification of the winner side and the biggest comeback
\* ------------------------------------------------------------------------
\* final scores of the boxscore (basic_info); 0-0 when it has none
AuthoritativeScores == {0, 2, 5}

ComebackEvents ==
    { Ev(TRUE, "away", "AWY", "A", 3, 3, 0, 1, Clock("9", "0", "0"), MadeThree),
      Ev(TRUE, "away", "AWY", "A", 2, 2, 0, 2, Clock("8", "0", "0"), MadeFg),
      Ev(TRUE, "home", "HOM", "B", 2, 0, 2, 3, Clock("7", "0", "0"), MadeFg),
      Ev(TRUE, "home", "HOM", "B", 3, 0, 3, 4, Clock("6", "0", "0"), MadeThree),
      Ev(FALSE, "home", "HOM", "B", 0, 0, 0, 4, Clock("5", "0", "0"), ReboundTag) }

InitComeback ==
    /\ InitWith(ComebackEvents, MaxPlays)
    /\ \E a \in AuthoritativeScores, h \in AuthoritativeScores :
          game_data = GameData(a, h)

NextComeback ==
    \/ EngineInit
    \/ AnalyzeBiggestComeback

SpecComeback == InitComeback /\ [][NextComeback]_vars

\* ------------------------------------------------------------------------
\* Specification of the game-winning shots
\* ------------------------------------------------------------------------
SubMinuteClock == <<"4", "5", ".", "3">>

ShotEvents ==
    { Ev(TRUE, "away", "AWY", "A", 2, 2, 0, 1, Clock("9", "0", "0"), MadeFg),
      Ev(TRUE, "home", "HOM", "B", 2, 0, 2, 1, Clock("8", "0", "0"), MadeFg),
      Ev(TRUE, "away", "AWY", "A", 3, 3, 0, 4, Clock("1", "3", "0"), MadeThree),
      Ev(TRUE, "home", "HOM", "B", 3, 0, 3, 4, Clock("1", "5", "9"), MadeThree),
      Ev(TRUE, "away", "AWY", "A", 2, 2, 0, 4, Clock("2", "0", "0"), MadeFg),
      \* overtime
      Ev(TRUE, "home", "HOM", "B", 2, 0, 2, 5, Clock("1", "0", "0"), MadeFg),
      \* a non-scoring play after which the home score is higher
      Ev(FALSE, "home", "HOM", "B", 0, 0, 1, 4, Clock("3", "0", "0"), OtherTag),
      \* a clock given in seconds and tenths, without a colon
      Ev(TRUE, "away", "AWY", "A", 1, 1, 0, 4, SubMinuteClock, MadeFt) }

ShotGameData == { GameData(0, 0), GameData(5, 2), GameData(2, 5) }

InitShots ==
    /\ InitWith(ShotEvents, MaxPlays)
    /\ game_data \in ShotGameData

NextShots ==
    \/ EngineInit
    \/ AnalyzeGameWinningShots

SpecShots == InitShots /\ [][NextShots]_vars

\* ------------------------------------------------------------------------
\* Specification of the clutch scoring
\* ------------------------------------------------------------------------
MaxClutchPlays == 3

DefaultFinalMinutes == 5

FinalMinutes == {3, DefaultFinalMinutes}

Garbage == <<"g", "a", "r", "b", "a", "g", "e">>

ClutchEvents ==
    { Ev(TRUE, "away", "AWY", "A", 2, 2, 0, 4, Clock("2", "3", "0"), MadeFg),
      Ev(TRUE, "away", "AWY", "A", 3, 3, 0, 4, Clock("5", "0", "1"), MadeThree),
      Ev(TRUE, "home", "HOM", "B", 2, 0, 2, 4, Garbage, MadeFg),
      Ev(TRUE, "home", "HOM", "B", 2, 0, 2, 4, <<>>, MadeFg),
      Ev(TRUE, "home", "HOM", "B", 1, 0, 1, 4, Clock("4", "5", "9"), MadeFt),
      Ev(TRUE, "away", "AWY", "C", 2, 2, 0, 4, Clock("5", "0", "0"), MadeFg),
      \* overtime
      Ev(TRUE, "away", "AWY", "A", 3, 3, 0, 5, Clock("2", "3", "0"), MadeThree),
      \* a non-scoring play in the window
      Ev(FALSE, "home", "HOM", "B", 0, 0, 0, 4, Clock("1", "3", "0"), ReboundTag),
      \* a scoring play in the window with no player attribution
      Ev(TRUE, "away", "AWY", "", 2, 2, 0, 4, Clock("0", "3", "0"), MadeFg),
      \* a clock given in seconds and tenths, without a colon
      Ev(TRUE, "away", "AWY", "A", 1, 1, 0, 4, SubMinuteClock, MadeFt),
      \* three-pointers in the window, one per side
      Ev(TRUE, "away", "AWY", "A", 3, 3, 0, 4, Clock("1", "0", "0"), MadeThree),
      Ev(TRUE, "home", "HOM", "B", 3, 0, 3, 4, Clock("0", "4", "5"), MadeThree),
      \* a scoring play in the window whose text names no make
      Ev(TRUE, "home", "HOM", "B", 2, 0, 2, 4, Clock("0", "1", "0"), OtherTag) }

InitClutch ==
    /\ InitWith(ClutchEvents, MaxClutchPlays)
    /\ game_data = GameData(espn_pbp.away_score, espn_pbp.home_score)

NextClutch ==
    \/ EngineInit
    \/ \E m \in FinalMinutes : AnalyzeClutchScoring(m)

SpecClutch == InitClutch /\ [][NextClutch]_vars

\* ------------------------------------------------------------------------
\* Specification of the list outputs: runs, streaks and clutch scoring of
\* the same game
\* ------------------------------------------------------------------------
ListMinPoints == {2, 3}

InitLists ==
    LET ListEvents ==
            { Ev(TRUE, "away", "AWY", "A", 2, 2, 0, 4, Clock("4", "0", "0"), MadeFg),
              Ev(TRUE, "away", "AWY", "A", 3, 3, 0, 4, Clock("3", "0", "0"), MadeThree),
              Ev(TRUE, "home", "HOM", "B", 2, 0, 2, 4, Clock("2", "0", "0"), MadeFg),
              Ev(TRUE, "home", "HOM", "B", 3, 0, 3, 4, Clock("1", "0", "0"), MadeThree),
              Ev(TRUE, "away", "AWY", "C", 3, 3, 0, 4, Clock("0", "4", "0"), MadeThree),
              Ev(TRUE, "home", "HOM", "D", 1, 0, 1, 4, Clock("0", "2", "0"), MadeFt) }
    IN  /\ InitWith(ListEvents, MaxPlays)
        /\ game_data = GameData(espn_pbp.away_score, espn_pbp.home_score)

NextLists ==
    \/ EngineInit
    \/ \E m \in ListMinPoints : AnalyzeTeamScoringRuns(m)
    \/ \E m \in ListMinPoints : AnalyzePlayerPointStreaks(m)
    \/ AnalyzeClutchScoring(DefaultFinalMinutes)

SpecLists == InitLists /\ [][NextLists]_vars

\* ------------------------------------------------------------------------
\* Reading the plays and a result independently of the analysis loops
\* ------------------------------------------------------------------------
\* the int written in decimal by the characters s[i..j]
RECURSIVE DecimalValue(_, _, _)
DecimalValue(s, i, j) ==
    IF j < i THEN 0
    ELSE 10 * DecimalValue(s, i, j - 1) + DigitVal(s[j])

\* position of the "-" that separates the two scores of a snapshot "a-h"
\* of non-negative scores
DashAt(s) == CHOOSE i \in 1..Len(s) : s[i] = "-"

SnapshotAway(s) == DecimalValue(s, 1, DashAt(s) - 1)

SnapshotHome(s) == DecimalValue(s, DashAt(s) + 1, Len(s))

\* the scoring plays of the list, in order
IsScoringPlay(play) == play.scoring_play

ScoringPlays(plays) == SelectSeq(plays, IsScoringPlay)

\* the scores before scoring play k: those of the scoring play before it
BeforeAway(sp, k) == IF k = 1 THEN 0 ELSE sp[k - 1].away_score

BeforeHome(sp, k) == IF k = 1 THEN 0 ELSE sp[k - 1].home_score

\* the side scoring play k is attributed to, "none" when its declared side
\* did not gain points
AttributedSide(sp, k) ==
    IF sp[k].team_side = "away" /\ sp[k].away_score > BeforeAway(sp, k) THEN "away"
    ELSE IF sp[k].team_side = "home" /\ sp[k].home_score > BeforeHome(sp, k) THEN "home"
    ELSE "none"

\* scoring plays i..j are a maximal group attributed to one side
MaximalGroup(sp, i, j) ==
    /\ AttributedSide(sp, i) /= "none"
    /\ \A k \in i..j : AttributedSide(sp, k) = AttributedSide(sp, i)
    /\ i = 1 \/ AttributedSide(sp, i - 1) /= AttributedSide(sp, i)
    /\ j = Len(sp) \/ AttributedSide(sp, j + 1) /= AttributedSide(sp, i)

\* the points the side of the group gained over scoring plays i..j
GroupPoints(sp, i, j) ==
    IF AttributedSide(sp, i) = "away"
    THEN sp[j].away_score - BeforeAway(sp, i)
    ELSE sp[j].home_score - BeforeHome(sp, i)

QualifyingGroups(sp, min_points) ==
    { g \in (1..Len(sp)) \X (1..Len(sp)) :
        /\ g[1] <= g[2]
        /\ MaximalGroup(sp, g[1], g[2])
        /\ GroupPoints(sp, g[1], g[2]) >= min_points }

RunMatchesGroup(run, sp, g) ==
    /\ run.team_side = AttributedSide(sp, g[1])
    /\ run.points = GroupPoints(sp, g[1], g[2])
    /\ run.start_score = ScoreStr(BeforeAway(sp, g[1]), BeforeHome(sp, g[1]))
    /\ run.end_score = ScoreStr(sp[g[2]].away_score, sp[g[2]].home_score)
    /\ run.start_time = sp[g[1]].time
    /\ run.end_time = sp[g[2]].time

RunsAreQualifyingGroups(runs, plays, min_points) ==
    LET sp == ScoringPlays(plays)
        groups == QualifyingGroups(sp, min_points)
    IN /\ Len(runs) = Cardinality(groups)
       /\ \A g \in groups : \E r \in 1..Len(runs) : RunMatchesGroup(runs[r], sp, g)
       /\ \A r \in 1..Len(runs) : \E g \in groups : RunMatchesGroup(runs[r], sp, g)

\* ------------------------------------------------------------------------
\* Claims on the team scoring runs
\* ------------------------------------------------------------------------
\* C1: analyze_team_scoring_runs(min_points) reports exactly the maximal
\* contiguous groups of scoring plays attributed to one side whose points
\* are >= min_points; sub-threshold groups are not reported but still end
\* the previous run, and the trailing run is flushed at the end of input.
C1_RunsExactlyMaximalGroups ==
    ret.op = "team_scoring_runs" =>
        RunsAreQualifyingGroups(ret.value, engine.plays, ret.arg)

\* What the code does in the case of C1: the runs of a side are reported as
\* C1 says when the plays that carry a side also carry a team name.
EveryTeamNamed(plays) ==
    \A n \in 1..Len(plays) : plays[n].team_side = "" \/ plays[n].team /= ""

RunsOfNamedTeamsAreMaximalGroups ==
    (ret.op = "team_scoring_runs" /\ EveryTeamNamed(engine.plays)) =>
        RunsAreQualifyingGroups(ret.value, engine.plays, ret.arg)

\* C2: for every play list whose cumulative scores are non-decreasing, the
\* opposing side's score in a reported run's end_score equals the opposing
\* side's score in its start_score.
NonDecreasingScores(plays) ==
    \A i \in 1..Len(plays) :
        /\ plays[i].away_score >= (IF i = 1 THEN 0 ELSE plays[i - 1].away_score)
        /\ plays[i].home_score >= (IF i = 1 THEN 0 ELSE plays[i - 1].home_score)

OpponentUnchanged(run) ==
    IF run.team_side = "away"
    THEN SnapshotHome(run.end_score) = SnapshotHome(run.start_score)
    ELSE SnapshotAway(run.end_score) = SnapshotAway(run.start_score)

C2_NoInterveningOpponentScore ==
    (ret.op = "team_scoring_runs" /\ NonDecreasingScores(engine.plays)) =>
        \A r \in 1..Len(ret.value) : OpponentUnchanged(ret.value[r])

\* ------------------------------------------------------------------------
\* Specification of the player point streaks
\* ------------------------------------------------------------------------
DefaultStreakMinPoints == 6

StreakMinPoints == {4, DefaultStreakMinPoints}

StreakEvents ==
    { Ev(TRUE, "away", "AWY", "A", 3, 3, 0, 1, Clock("9", "0", "0"), MadeThree),
      Ev(TRUE, "away", "AWY", "A", 2, 2, 0, 1, Clock("8", "0", "0"), MadeFg),
      Ev(TRUE, "home", "HOM", "B", 2, 0, 2, 2, Clock("7", "0", "0"), MadeFg),
      \* a scoring play of value zero that changes no score
      Ev(TRUE, "home", "HOM", "B", 0, 0, 0, 2, Clock("6", "0", "0"), OtherTag),
      \* a scoring play without a value; the home score rose by 2
      Ev(TRUE, "home", "HOM", "B", 0, 0, 2, 3, Clock("5", "0", "0"), MadeFg),
      \* a non-scoring play
      Ev(FALSE, "home", "HOM", "B", 0, 0, 0, 3, Clock("4", "0", "0"), ReboundTag),
      \* a non-scoring play after which the home score is higher
      Ev(FALSE, "home", "HOM", "B", 0, 0, 1, 3, Clock("3", "0", "0"), OtherTag),
      \* a scoring play with no player attribution
      Ev(TRUE, "away", "AWY", "", 2, 2, 0, 4, Clock("2", "0", "0"), MadeFg),
      \* a score correction
      Ev(TRUE, "home", "HOM", "B", 0, 0, -1, 4, Clock("1", "0", "0"), OtherTag) }

InitStreaks ==
    /\ InitWith(StreakEvents, MaxPlays)
    /\ game_data = GameData(espn_pbp.away_score, espn_pbp.home_score)

NextStreaks ==
    \/ EngineInit
    \/ \E m \in StreakMinPoints : AnalyzePlayerPointStreaks(m)

SpecStreaks == InitStreaks /\ [][NextStreaks]_vars

\* ------------------------------------------------------------------------
\* analyze(): the five analyses with their default parameters in one dict,
\* or the empty dict when there are no plays.  The dict is a record; the
\* empty dict has no field.
\* ------------------------------------------------------------------------
EmptyDict == <<>>

AnalyzeFiveKeysAlways(self) ==
    [team_scoring_runs |-> analyze_team_scoring_runs(self.plays, DefaultRunMinPoints),
     player_point_streaks |-> analyze_player_point_streaks(self.plays,
                                                           DefaultStreakMinPoints),
     biggest_comeback |-> analyze_biggest_comeback(self),
     clutch_scoring |-> analyze_clutch_scoring(self.plays, DefaultFinalMinutes),
     game_winning_shots |-> analyze_game_winning_shots(self)]

analyze(self) ==
    IF self.plays = <<>> THEN EmptyDict
    ELSE [team_scoring_runs |-> analyze_team_scoring_runs(self.plays, DefaultRunMinPoints),
          player_point_streaks |-> analyze_player_point_streaks(self.plays,
                                                                DefaultStreakMinPoints),
          biggest_comeback |-> analyze_biggest_comeback(self),
          clutch_scoring |-> analyze_clutch_scoring(self.plays, DefaultFinalMinutes),
          game_winning_shots |-> analyze_game_winning_shots(self)]

\* analyze() raises when one of the five calls does
Analyze ==
    LET n == Len(engine.plays)
        raises ==
            \/ RunRaises(engine.plays, n, DefaultRunMinPoints)
            \/ StreakRaises(engine.plays, n, DefaultStreakMinPoints)
            \/ ComebackRaises(engine.plays, n, engine.winner_side)
            \/ ClutchRaises(engine.plays, n)
            \/ ShotRaises(engine.plays, n, engine.winner_side)
    IN  /\ pc = "ready"
        /\ ret' = Outcome("analyze", 0, raises, analyze(SelfWithDefaults(engine)))
        /\ UNCHANGED <<fetch, espn_pbp, game_data, engine, pc, games, processor, calls>>

\* ------------------------------------------------------------------------
\* Specification of analyze() and of the five analyses with their default
\* parameters, over play lists in which at most one play lacks one key
\* ------------------------------------------------------------------------
MaxAnalyzePlays == 3

InitAnalyze ==
    /\ LET PlayKeys ==
               {"time", "period", "team", "team_side", "player", "text", "play_type",
                "scoring_play", "score_value", "away_score", "home_score"}
           \* the play without one key
           Without(play, key) == [k \in DOMAIN play \ {key} |-> play[k]]
           AnalyzeEvents ==
               { Ev(TRUE, "away", "AWY", "A", 3, 3, 0, 4, Clock("1", "3", "0"), MadeThree),
                 Ev(TRUE, "home", "HOM", "B", 2, 0, 2, 4, Clock("1", "0", "0"), MadeFg),
                 Ev(TRUE, "away", "AWY", "A", 3, 3, 0, 1, Clock("9", "0", "0"), MadeThree),
                 Ev(FALSE, "home", "HOM", "B", 0, 0, 0, 4, Clock("0", "3", "0"), ReboundTag) }
       IN \E n \in 0..MaxAnalyzePlays : \E evs \in [1..n -> AnalyzeEvents] :
             LET plays == BuildPlays(evs)
             IN \/ espn_pbp = ParsedPbp(plays)
                \/ \E i \in 1..n : \E key \in PlayKeys :
                      espn_pbp = [ParsedPbp(plays) EXCEPT
                                    !.plays = [plays EXCEPT ![i] = Without(@, key)]]
    /\ game_data = GameData(espn_pbp.away_score, espn_pbp.home_score)
    /\ engine = NoEngine
    /\ pc = "new"
    /\ ret = NoRet
    /\ games = <<>>
    /\ processor = NoProcessor
    /\ fetch = NoFetch
    /\ calls = 0

NextAnalyze ==
    \/ EngineInit
    \/ Analyze
    \/ AnalyzeTeamScoringRuns(DefaultRunMinPoints)
    \/ AnalyzePlayerPointStreaks(DefaultStreakMinPoints)
    \/ AnalyzeBiggestComeback
    \/ AnalyzeClutchScoring(DefaultFinalMinutes)
    \/ AnalyzeGameWinningShots

SpecAnalyze == InitAnalyze /\ [][NextAnalyze]_vars

\* ------------------------------------------------------------------------
\* Claims on the player point streaks
\* ------------------------------------------------------------------------
\* the last scoring play before play n, 0 when there is none
PrevScoring(plays, n) ==
    IF \E k \in 1..(n - 1) : plays[k].scoring_play
    THEN CHOOSE k \in 1..(n - 1) :
            /\ plays[k].scoring_play
            /\ \A l \in (k + 1)..(n - 1) : ~plays[l].scoring_play
    ELSE 0

AwayBefore(plays, n) ==
    IF PrevScoring(plays, n) = 0 THEN 0 ELSE plays[PrevScoring(plays, n)].away_score

HomeBefore(plays, n) ==
    IF PrevScoring(plays, n) = 0 THEN 0 ELSE plays[PrevScoring(plays, n)].home_score

\* the rise of the total score at play n since the previous scoring play
TotalRise(plays, n) ==
    (plays[n].away_score + plays[n].home_score)
        - (AwayBefore(plays, n) + HomeBefore(plays, n))

\* a play by another player than the one of the open streak that is
\* non-scoring or has point value zero
OtherPlayerZeroValue(st, play) ==
    /\ Truthy(st.current_streak.player)
    /\ play.player /= st.current_streak.player
    /\ (~play.scoring_play \/ play.score_value = 0)

\* a positive-scoring play of the player of the open streak extends it
ExtendsOpenStreak(before, after, play) ==
    /\ after.streaks = before.streaks
    /\ after.current_streak.player = before.current_streak.player
    /\ after.current_streak.points = before.current_streak.points + play.score_value
    /\ after.current_streak.start_time = before.current_streak.start_time
    /\ after.current_streak.start_score = before.current_streak.start_score

OwnPositivePlay(st, play) ==
    /\ Truthy(st.current_streak.player)
    /\ play.player = st.current_streak.player
    /\ play.scoring_play
    /\ play.score_value > 0

\* C3 as stated: in analyze_player_point_streaks a play by a different
\* player that is non-scoring or has point value zero does not break the
\* active streak, and the original player's next positive-scoring play
\* extends that streak.
C3_ZeroValuePlayNeverBreaks ==
    ret.op = "player_point_streaks" =>
        \A n \in 1..Len(engine.plays) :
            LET before == StreakLoop(engine.plays, n - 1, ret.arg)
                after  == StreakLoop(engine.plays, n, ret.arg)
                play   == engine.plays[n]
            IN /\ OtherPlayerZeroValue(before, play) =>
                      /\ after.current_streak = before.current_streak
                      /\ after.streaks = before.streaks
               /\ OwnPositivePlay(before, play) =>
                      ExtendsOpenStreak(before, after, play)

\* C3 as amended: a play by a different player that is non-scoring, or that
\* has point value zero while the total score has not risen since the
\* previous scoring play, does not break the active streak, and the
\* original player's next positive-scoring play extends that streak.
C3_ZeroValueNoRiseNeverBreaks ==
    ret.op = "player_point_streaks" =>
        \A n \in 1..Len(engine.plays) :
            LET before == StreakLoop(engine.plays, n - 1, ret.arg)
                after  == StreakLoop(engine.plays, n, ret.arg)
                play   == engine.plays[n]
            IN /\ (/\ OtherPlayerZeroValue(before, play)
                   /\ (play.scoring_play => TotalRise(engine.plays, n) <= 0)) =>
                      /\ after.current_streak = before.current_streak
                      /\ after.streaks = before.streaks
               /\ OwnPositivePlay(before, play) =>
                      ExtendsOpenStreak(before, after, play)

\* a reported streak that spans a zero-value scoring play of another player
C3_Witness ==
    /\ ret.op = "player_point_streaks"
    /\ Len(ret.value) >= 1
    /\ \E i, n, k \in 1..Len(engine.plays) :
          /\ i < n /\ n < k
          /\ OwnPositivePlay(StreakLoop(engine.plays, i, ret.arg), engine.plays[k])
          /\ \A l \in (i + 1)..(k - 1) :
                OtherPlayerZeroValue(StreakLoop(engine.plays, l - 1, ret.arg),
                                     engine.plays[l])
          /\ engine.plays[n].scoring_play
          /\ engine.plays[i].player = engine.plays[k].player
          /\ engine.plays[i].scoring_play
          /\ ret.value[1].points =
                engine.plays[i].score_value + engine.plays[k].score_value
          /\ ret.value[1].start_time = engine.plays[i].time
          /\ ret.value[1].end_time = engine.plays[k].time

\* the points of play n: its point value, or the rise of the total score
\* since the previous scoring play when the play carries no value
CreditedPoints(plays, n) ==
    IF plays[n].score_value /= 0 THEN plays[n].score_value
    ELSE TotalRise(plays, n)

\* play n is a positive-scoring play by a named player
PositiveScoring(plays, n) ==
    /\ plays[n].scoring_play
    /\ plays[n].player /= ""
    /\ CreditedPoints(plays, n) > 0

\* the positive-scoring plays from i to j are all by the player of play i
SamePlayerBetween(plays, i, j) ==
    \A k \in i..j : PositiveScoring(plays, k) => plays[k].player = plays[i].player

\* plays i..j span a maximal streak: i and j are positive-scoring plays of
\* one player, no other named player scores between them, and the
\* positive-scoring plays next before i and next after j are by another
MaximalStreak(plays, i, j) ==
    /\ i <= j
    /\ PositiveScoring(plays, i) /\ PositiveScoring(plays, j)
    /\ SamePlayerBetween(plays, i, j)
    /\ \A k \in 1..(i - 1) :
          (PositiveScoring(plays, k) /\ \A l \in (k + 1)..(i - 1) : ~PositiveScoring(plays, l))
              => plays[k].player /= plays[i].player
    /\ \A k \in (j + 1)..Len(plays) :
          (PositiveScoring(plays, k) /\ \A l \in (j + 1)..(k - 1) : ~PositiveScoring(plays, l))
              => plays[k].player /= plays[i].player

RECURSIVE StreakSum(_, _, _)
StreakSum(plays, i, j) ==
    IF j < i THEN 0
    ELSE StreakSum(plays, i, j - 1)
            + (IF PositiveScoring(plays, j) THEN CreditedPoints(plays, j) ELSE 0)

QualifyingStreaks(plays, min_points) ==
    { g \in (1..Len(plays)) \X (1..Len(plays)) :
        /\ MaximalStreak(plays, g[1], g[2])
        /\ StreakSum(plays, g[1], g[2]) >= min_points }

StreakMatches(streak, plays, g) ==
    /\ streak.player = plays[g[1]].player
    /\ streak.points = StreakSum(plays, g[1], g[2])
    /\ streak.start_time = plays[g[1]].time
    /\ streak.end_time = plays[g[2]].time
    /\ streak.start_score = ScoreStr(AwayBefore(plays, g[1]), HomeBefore(plays, g[1]))
    /\ streak.end_score = ScoreStr(plays[g[2]].away_score, plays[g[2]].home_score)

MaxOf(S) == CHOOSE x \in S : \A y \in S : y <= x

\* the lead of side over the other side after play n (0-0 before play 1)
LeadOf(plays, n, side) ==
    IF n = 0 THEN 0
    ELSE IF side = "away" THEN plays[n].away_score - plays[n].home_score
    ELSE plays[n].home_score - plays[n].away_score

OpponentLeads(plays, side) ==
    { -LeadOf(plays, n, side) : n \in 1..Len(plays) }

\* C5: analyze_biggest_comeback returns as deficit the maximum, over every
\* play of the game, of max(0, opponent's score minus winner's score), the
\* winner being the side resolved from the authoritative final score.
C5_DeficitIsMaxOpponentLead ==
    (ret.op = "biggest_comeback" /\ engine.plays /= <<>>) =>
        /\ Len(ret.value) = 1
        /\ ret.value[1].team_side = engine.winner_side
        /\ ret.value[1].deficit =
              MaxOf({0} \cup OpponentLeads(engine.plays, engine.winner_side))

\* the winner led first, then trailed by 3 or more, and has made up part
\* of that deficit by the last play
C5_Witness ==
    /\ ret.op = "biggest_comeback"
    /\ Len(ret.value) = 1
    /\ ret.value[1].deficit >= 3
    /\ LeadOf(engine.plays, 1, engine.winner_side) > 0
    /\ -LeadOf(engine.plays, Len(engine.plays), engine.winner_side)
          < ret.value[1].deficit

\* C6: the winner side is decided by comparing the authoritative away and
\* home scores; the play list's own final scores decide only when the
\* authoritative source reports 0-0.
C6_WinnerFromAuthoritativeScore ==
    pc = "ready" =>
        LET actual == game_data.basic_info
        IN /\ (actual.away_score /= 0 \/ actual.home_score /= 0) =>
                 (engine.winner_side = "home" <=> actual.home_score > actual.away_score)
           /\ (actual.away_score = 0 /\ actual.home_score = 0) =>
                 (engine.winner_side = "home" <=>
                      espn_pbp.home_score > espn_pbp.away_score)
           /\ engine.winner_side \in {"away", "home"}

\* the boxscore says the home side won although the away side leads after
\* the last play
C6_Witness ==
    /\ pc = "ready"
    /\ game_data.basic_info.home_score > game_data.basic_info.away_score
    /\ espn_pbp.plays /= <<>>
    /\ espn_pbp.plays[Len(espn_pbp.plays)].away_score
          > espn_pbp.plays[Len(espn_pbp.plays)].home_score
    /\ engine.winner_side = "home"

\* C7: when the winning side never trails at any play of a non-empty list,
\* the record has never_trailed = true, deficit 0 and no timestamp; and in
\* every record never_trailed is true exactly when deficit is 0.
C7_NeverTrailedIffNoDeficit ==
    (ret.op = "biggest_comeback" /\ engine.plays /= <<>>) =>
        LET r == ret.value[1]
        IN /\ r.never_trailed <=> r.deficit = 0
           /\ (\A n \in 1..Len(engine.plays) :
                  LeadOf(engine.plays, n, engine.winner_side) >= 0) =>
                 /\ r.never_trailed
                 /\ r.deficit = 0
                 /\ r.deficit_time = <<>>
                 /\ r.deficit_period = 0
                 /\ r.deficit_score = <<>>

\* the winner led after every one of three or more plays, both sides scored
C7_Witness ==
    /\ ret.op = "biggest_comeback"
    /\ Len(engine.plays) >= 3
    /\ \A n \in 1..Len(engine.plays) :
          LeadOf(engine.plays, n, engine.winner_side) > 0
    /\ \E n \in 2..Len(engine.plays) :
          LeadOf(engine.plays, n, engine.winner_side)
              < LeadOf(engine.plays, n - 1, engine.winner_side)
    /\ ret.value[1].never_trailed

\* ------------------------------------------------------------------------
\* Claims on the game-winning shots
\* ------------------------------------------------------------------------
\* play n is a scoring play by the winning side that turns a margin not in
\* its favour before the play into a margin in its favour after it
GoAheadPlay(plays, n, side) ==
    /\ plays[n].scoring_play
    /\ plays[n].team_side = side
    /\ LeadOf(plays, n - 1, side) <= 0
    /\ LeadOf(plays, n, side) > 0

GoAheadPlays(plays, side) ==
    { n \in 1..Len(plays) : GoAheadPlay(plays, n, side) }

\* a reported shot is play n
ShotIsPlay(shot, plays, n) ==
    /\ shot.player = plays[n].player
    /\ shot.team_side = plays[n].team_side
    /\ shot.time = plays[n].time
    /\ shot.period = plays[n].period
    /\ shot.points = plays[n].score_value
    /\ shot.score = ScoreStr(plays[n].away_score, plays[n].home_score)

\* the Optional result is the last play of the set, None when it is empty
IsLastOf(result, plays, S) ==
    IF S = {} THEN result = <<>>
    ELSE Len(result) = 1 /\ ShotIsPlay(result[1], plays, MaxOf(S))

\* C8: analyze_game_winning_shots returns as decisive_shot the last play of
\* the whole game that is a scoring play by the winning side and changes
\* the margin from not in that side's favour to in its favour; it is absent
\* when there is no such play.
C8_DecisiveShotIsLastGoAhead ==
    ret.op = "game_winning_shots" =>
        IsLastOf(ret.value.decisive_shot, engine.plays,
                 GoAheadPlays(engine.plays, engine.winner_side))

\* the winning side took the lead twice; the second time is reported
C8_Witness ==
    /\ ret.op = "game_winning_shots"
    /\ Cardinality(GoAheadPlays(engine.plays, engine.winner_side)) >= 2
    /\ Len(ret.value.decisive_shot) = 1
    /\ ShotIsPlay(ret.value.decisive_shot[1], engine.plays,
                  MaxOf(GoAheadPlays(engine.plays, engine.winner_side)))

\* a clock "M:SS": digits, a colon, a digit
ColonOfClock(s, i) ==
    /\ 1 < i /\ i < Len(s)
    /\ s[i] = ":"
    /\ \A k \in 1..(i - 1) : IsDigit(s[k])
    /\ IsDigit(s[i + 1])

WellFormedClock(s) == \E i \in 1..Len(s) : ColonOfClock(s, i)

\* the seconds a well-formed clock shows
ClockSeconds(s) ==
    LET i == CHOOSE c \in 1..Len(s) : ColonOfClock(s, c)
        j == MaxOf({ e \in (i + 1)..Len(s) : \A k \in (i + 1)..e : IsDigit(s[k]) })
    IN 60 * DecimalValue(s, 1, i - 1) + DecimalValue(s, i + 1, j)

\* play n lies in period 4 with under the given minutes on the clock
InFinalMinutes(plays, n, minutes) ==
    /\ plays[n].period = 4
    /\ WellFormedClock(plays[n].time)
    /\ ClockSeconds(plays[n].time) < 60 * minutes

ClutchGoAheadPlays(plays, side) ==
    { n \in GoAheadPlays(plays, side) : InFinalMinutes(plays, n, 2) }

\* C9: clutch_go_ahead is the last go-ahead play by the winning side that
\* lies in period 4 with under 2 minutes on the clock; it is absent when no
\* go-ahead play lies in that window, and it is the same play as
\* decisive_shot whenever decisive_shot lies in that window.
C9_ClutchGoAheadIsLastInWindow ==
    ret.op = "game_winning_shots" =>
        LET go_ahead == GoAheadPlays(engine.plays, engine.winner_side)
        IN /\ IsLastOf(ret.value.clutch_go_ahead, engine.plays,
                       ClutchGoAheadPlays(engine.plays, engine.winner_side))
           /\ (go_ahead /= {} /\ InFinalMinutes(engine.plays, MaxOf(go_ahead), 2)) =>
                 ret.value.clutch_go_ahead = ret.value.decisive_shot

\* a go-ahead play in the window is followed by a later go-ahead play
\* outside it: clutch_go_ahead is reported and differs from decisive_shot
C9_Witness ==
    /\ ret.op = "game_winning_shots"
    /\ Len(ret.value.clutch_go_ahead) = 1
    /\ Len(ret.value.decisive_shot) = 1
    /\ ret.value.clutch_go_ahead /= ret.value.decisive_shot
    /\ ClutchGoAheadPlays(engine.plays, engine.winner_side) /= {}
    /\ MaxOf(ClutchGoAheadPlays(engine.plays, engine.winner_side))
          < MaxOf(GoAheadPlays(engine.plays, engine.winner_side))

\* ------------------------------------------------------------------------
\* Claims on the clutch scoring
\* ------------------------------------------------------------------------
RECURSIVE EntryPoints(_, _)
EntryPoints(entries, n) ==
    IF n = 0 THEN 0 ELSE EntryPoints(entries, n - 1) + entries[n].points

\* play n is a scoring play with a player, a side and a point value
CountsForClutch(plays, n, side) ==
    /\ plays[n].scoring_play
    /\ plays[n].player /= ""
    /\ plays[n].team_side = side
    /\ plays[n].score_value /= 0

RECURSIVE WindowPoints(_, _, _, _)
WindowPoints(plays, n, side, minutes) ==
    IF n = 0 THEN 0
    ELSE WindowPoints(plays, n - 1, side, minutes)
            + (IF CountsForClutch(plays, n, side) /\ InFinalMinutes(plays, n, minutes)
               THEN plays[n].score_value ELSE 0)

\* C10: a scoring play contributes to analyze_clutch_scoring(final_minutes)
\* only if its period is exactly 4 and its clock parses as minutes:seconds
\* to a value strictly below final_minutes; a clock that does not parse is
\* excluded, not taken as zero, and overtime plays never contribute.  The
\* points reported for a side are those of its plays in that window.
C10_ClutchOnlyInWindow ==
    ret.op = "clutch_scoring" =>
        /\ EntryPoints(ret.value.away, Len(ret.value.away))
              = WindowPoints(engine.plays, Len(engine.plays), "away", ret.arg)
        /\ EntryPoints(ret.value.home, Len(ret.value.home))
              = WindowPoints(engine.plays, Len(engine.plays), "home", ret.arg)
        /\ \A side \in {"away", "home"} :
              \A e \in 1..Len(ret.value[side]) :
                  \E n \in 1..Len(engine.plays) :
                      /\ engine.plays[n].player = ret.value[side][e].player
                      /\ CountsForClutch(engine.plays, n, side)
                      /\ InFinalMinutes(engine.plays, n, ret.arg)

\* with the default window a play at "2:30" of period 4 is counted while
\* the plays at "5:01" and at an unparseable clock of the same call are not
C10_Witness ==
    /\ ret.op = "clutch_scoring"
    /\ ret.arg = DefaultFinalMinutes
    /\ \E i, j, k \in 1..Len(engine.plays) :
          /\ engine.plays[i].time = <<"2", ":", "3", "0">>
          /\ engine.plays[i].period = 4
          /\ engine.plays[j].time = <<"5", ":", "0", "1">>
          /\ engine.plays[k].time = <<"g", "a", "r", "b", "a", "g", "e">>
          /\ engine.plays[k].scoring_play
    /\ Len(ret.value.away) = 1
    /\ ret.value.away[1].points = 2
    /\ ret.value.home = <<>>

\* the qualifying plays of a player on a side: scoring plays in the window
\* with that player, that side and a point value
QualifyingPlays(plays, side, player, minutes) ==
    { n \in 1..Len(plays) :
        /\ CountsForClutch(plays, n, side)
        /\ InFinalMinutes(plays, n, minutes)
        /\ plays[n].player = player }

RECURSIVE PointsOfPlays(_, _)
PointsOfPlays(plays, S) ==
    IF S = {} THEN 0
    ELSE LET n == CHOOSE x \in S : TRUE
         IN plays[n].score_value + PointsOfPlays(plays, S \ {n})

\* the tags by which the scraper names a made free throw, a made
\* three-pointer and the other made field goals
FreeThrowTags == { MadeFt }

ThreePointTags == { MadeThree }

OtherFieldGoalTags ==
    { MadeFg,
      <<"m", "a", "d", "e", "_", "d", "u", "n", "k">>,
      <<"m", "a", "d", "e", "_", "l", "a", "y", "u", "p">>,
      <<"m", "a", "d", "e", "_", "j", "u", "m", "p", "e", "r">> }

TaggedPlays(plays, S, tags) == { n \in S : plays[n].play_type \in tags }

\* C11: analyze_clutch_scoring returns, for each side, exactly one entry per
\* player with at least one qualifying play in the window; the entry's
\* points are the sum of the point values of that player's qualifying plays
\* on that side; ft counts the plays tagged as free throws, three those
\* tagged as three-pointers and fg the three-pointers and the other made
\* field goals, so that three <= fg in every entry.
C11_ClutchEntriesPerPlayer ==
    ret.op = "clutch_scoring" =>
        \A side \in {"away", "home"} :
            LET entries == ret.value[side]
                plays == engine.plays
            IN /\ \A i, j \in 1..Len(entries) :
                      entries[i].player = entries[j].player => i = j
               /\ \A n \in 1..Len(plays) :
                      (CountsForClutch(plays, n, side) /\ InFinalMinutes(plays, n, ret.arg))
                         => \E i \in 1..Len(entries) : entries[i].player = plays[n].player
               /\ \A i \in 1..Len(entries) :
                      LET Q == QualifyingPlays(plays, side, entries[i].player, ret.arg)
                          threes == Cardinality(TaggedPlays(plays, Q, ThreePointTags))
                      IN /\ Q /= {}
                         /\ entries[i].points = PointsOfPlays(plays, Q)
                         /\ entries[i].ft = Cardinality(TaggedPlays(plays, Q, FreeThrowTags))
                         /\ entries[i].three = threes
                         /\ entries[i].fg
                               = threes + Cardinality(TaggedPlays(plays, Q, OtherFieldGoalTags))
                         /\ entries[i].three <= entries[i].fg

\* one player made a three-pointer and a two-point field goal in the window
\* and another player of the other side a free throw
C11_Witness ==
    /\ ret.op = "clutch_scoring"
    /\ Len(ret.value.away) = 1
    /\ ret.value.away[1] = [player |-> "A", points |-> 5, fg |-> 2, ft |-> 0, three |-> 1]
    /\ Len(ret.value.home) = 1
    /\ ret.value.home[1] = [player |-> "B", points |-> 1, fg |-> 0, ft |-> 1, three |-> 0]
    /\ Cardinality(QualifyingPlays(engine.plays, "away", "A", ret.arg)) = 2

\* ------------------------------------------------------------------------
\* Claims on the order of the list outputs
\* ------------------------------------------------------------------------
NonIncreasingPoints(list) ==
    \A i, j \in 1..Len(list) : i < j => list[i].points >= list[j].points

\* C12: every list output of the analyzer is in non-increasing order of
\* points: the team scoring runs, the player point streaks and each of the
\* two per-side clutch scoring lists.
C12_ListsSortedByPoints ==
    /\ ret.op \in {"team_scoring_runs", "player_point_streaks"} =>
          NonIncreasingPoints(ret.value)
    /\ ret.op = "clutch_scoring" =>
          /\ NonIncreasingPoints(ret.value.away)
          /\ NonIncreasingPoints(ret.value.home)

\* the game's first run is smaller than a later one, which is listed first
C12_Witness ==
    /\ ret.op = "team_scoring_runs"
    /\ Len(ret.value) = 2
    /\ engine.plays[1].team_side = ret.value[2].team_side
    /\ engine.plays[1].score_value = ret.value[2].points
    /\ ret.value[1].points > ret.value[2].points
    /\ ret.value[1].team_side /= ret.value[2].team_side

\* ------------------------------------------------------------------------
\* Claims on analyze() and on plays that lack a key
\* ------------------------------------------------------------------------
ResultKeys ==
    {"team_scoring_runs", "player_point_streaks", "biggest_comeback",
     "clutch_scoring", "game_winning_shots"}

\* the empty form of the result of each analysis
EmptyForm(op, value) ==
    CASE op = "team_scoring_runs" -> value = <<>>
      [] op = "player_point_streaks" -> value = <<>>
      [] op = "biggest_comeback" -> value = <<>>
      [] op = "clutch_scoring" -> value.away = <<>> /\ value.home = <<>>
      [] op = "game_winning_shots" ->
            value.clutch_go_ahead = <<>> /\ value.decisive_shot = <<>>

C14_MalformedPlayNeverAborts ==
    ret.op /= "none" => ret.raised = None

\* ------------------------------------------------------------------------
\* Python values of a box-score row (src/parsers/stats_parser.py): a stat
\* is an int, a str or None; a key the row lacks is a field the record
\* lacks.  Names, ids, teams and dates are strs (sequences of characters).
\* ------------------------------------------------------------------------
PyInt(n) == [int |-> n]

PyStr(s) == [str |-> s]

PyNone == [none |-> TRUE]

\* the characters of the inputs in the order of their code points
Chars ==
    <<" ", ",", "-", ".",
      "0", "1", "2", "3", "4", "5", "6", "7", "8", "9", ":",
      "A", "B", "C", "D", "E", "F", "G", "H", "I", "J", "K", "L", "M",
      "N", "O", "P", "Q", "R", "S", "T", "U", "V", "W", "X", "Y", "Z",
      "a", "b", "c", "d", "e", "f", "g", "h", "i", "j", "k", "l", "m",
      "n", "o", "p", "q", "r", "s", "t", "u", "v", "w", "x", "y", "z">>

Ord(c) == CHOOSE i \in 1..Len(Chars) : Chars[i] = c

\* a < b for two strs
RECURSIVE StrLess(_, _)
StrLess(a, b) ==
    IF b = <<>> THEN FALSE
    ELSE IF a = <<>> THEN TRUE
    ELSE IF Head(a) = Head(b) THEN StrLess(Tail(a), Tail(b))
    ELSE Ord(Head(a)) < Ord(Head(b))

\* s.lower()
LowerStr(s) ==
    LET Lower(c) == IF Ord("A") <= Ord(c) /\ Ord(c) <= Ord("Z")
                    THEN Chars[Ord(c) - Ord("A") + Ord("a")]
                    ELSE c
    IN [i \in 1..Len(s) |-> Lower(s[i])]

RECURSIVE LStrip(_)
LStrip(s) == IF s /= <<>> /\ Head(s) = " " THEN LStrip(Tail(s)) ELSE s

RECURSIVE RStrip(_)
RStrip(s) ==
    IF s /= <<>> /\ s[Len(s)] = " " THEN RStrip(SubSeq(s, 1, Len(s) - 1)) ELSE s

\* s.strip()
Strip(s) == RStrip(LStrip(s))

\* int(s): <<n>>, or <<>> where int raises ValueError.  A literal is an
\* optional sign and digits, between optional spaces.
IntOfStr(s) ==
    LET Literal(sign, body) ==
            IF body /= <<>> /\ DigitRunEnd(body, 1) = Len(body)
            THEN <<sign * IntOf(body, 1, Len(body))>>
            ELSE <<>>
        Parse(t) ==
            IF t /= <<>> /\ t[1] \in {"-", "+"}
            THEN Literal(IF t[1] = "-" THEN -1 ELSE 1, Tail(t))
            ELSE Literal(1, t)
    IN Parse(Strip(s))

\* float(s) in sixtieths: <<x>>, or <<>> where float raises ValueError.  A
\* literal is an optional sign, digits and an optional point with digits,
\* at least one digit in all; the inputs carry at most one digit after the
\* point.
FloatOfStr(s) ==
    LET \* e is the end of the digits before the point
        Value(sign, body, e) ==
            IF \/ e >= 1 /\ e = Len(body)
               \/ /\ e < Len(body)
                  /\ body[e + 1] = "."
                  /\ DigitRunEnd(body, e + 2) = Len(body)
                  /\ (e >= 1 \/ Len(body) > e + 1)
            THEN <<sign * (60 * IntOf(body, 1, e)
                             + 6 * (IF e + 2 <= Len(body) THEN DigitVal(body[e + 2])
                                    ELSE 0))>>
            ELSE <<>>
        Literal(sign, body) == Value(sign, body, DigitRunEnd(body, 1))
        Parse(t) ==
            IF t /= <<>> /\ t[1] \in {"-", "+"}
            THEN Literal(IF t[1] = "-" THEN -1 ELSE 1, Tail(t))
            ELSE Literal(1, t)
    IN Parse(Strip(s))

\* safe_int(value, default): an int is itself, a str is int(float(str)),
\* truncated towards zero, or the default on ValueError; None and any
\* other value give the default
safe_int(value, default) ==
    LET Truncated(x) == IF x = <<>> THEN default
                        ELSE IF x[1] >= 0 THEN x[1] \div 60
                        ELSE -((-x[1]) \div 60)
    IN IF "int" \in DOMAIN value THEN value.int
       ELSE IF "str" \in DOMAIN value THEN Truncated(FloatOfStr(value.str))
       ELSE default

\* safe_int(player.get(stat, default))
SafeIntOf(player, stat, default) ==
    IF HasKey(player, stat) THEN safe_int(player[stat], 0) ELSE default

\* parse_minutes(mp) in sixtieths of a minute (seconds): an int is taken
\* as minutes, a str with a colon as parts[0] minutes and parts[1] seconds,
\* another str as float(mp); None and an unparseable str give 0.0
parse_minutes(mp) ==
    LET First(S) == CHOOSE i \in S : \A j \in S : i <= j
        Sum(minutes, seconds) ==
            IF minutes /= <<>> /\ seconds /= <<>> THEN 60 * minutes[1] + seconds[1]
            ELSE 0
        \* parts[0] ends before the colon c1, parts[1] before the next one
        Parts(s, c1, later) ==
            Sum(IntOfStr(SubSeq(s, 1, c1 - 1)),
                IntOfStr(SubSeq(s, c1 + 1,
                                IF later = {} THEN Len(s) ELSE First(later) - 1)))
        Float(x) == IF x = <<>> THEN 0 ELSE x[1]
        Parse(s, colons) ==
            IF colons /= {}
            THEN Parts(s, First(colons), {i \in colons : i > First(colons)})
            ELSE Float(FloatOfStr(s))
    IN IF "int" \in DOMAIN mp THEN 60 * mp.int
       ELSE IF "str" \notin DOMAIN mp THEN 0
       ELSE Parse(mp.str, {i \in 1..Len(mp.str) : mp.str[i] = ":"})

\* round(num / den, k) as an integer multiple of 10^-k, num being already
\* scaled by 10^k: round half to even, which is what round() gives on the
\* quotients of the inputs
RoundHalfEven(num, den) ==
    LET q == num \div den
        r == num - q * den
    IN IF 2 * r < den THEN q
       ELSE IF 2 * r > den THEN q + 1
       ELSE IF q % 2 = 0 THEN q ELSE q + 1

\* ------------------------------------------------------------------------
\* src/utils/helpers.py
\* ------------------------------------------------------------------------
\* ' '.join(s.split())
RECURSIVE JoinSplit(_)
JoinSplit(s) ==
    LET Join(word, rest) == IF rest = <<>> THEN word ELSE word \o <<" ">> \o rest
        \* the first word of t ends at e
        Split(t, e) == Join(SubSeq(t, 1, e), JoinSplit(SubSeq(t, e + 1, Len(t))))
        Words(t, spaces) ==
            IF spaces = {} THEN t
            ELSE Split(t, (CHOOSE i \in spaces : \A j \in spaces : i <= j) - 1)
        Stripped(t) == Words(t, {i \in 1..Len(t) : t[i] = " "})
    IN Stripped(LStrip(s))

\* normalize_name(name): re.sub(r'\s+(Jr\.?|Sr\.?|III|II|IV)$', '', name)
\* with re.IGNORECASE takes the suffix with all the whitespace before it;
\* then the periods go, the whitespace is collapsed and the case folded
normalize_name(name) ==
    LET EndsWith(suffix) ==
            /\ Len(name) > Len(suffix)
            /\ LowerStr(SubSeq(name, Len(name) - Len(suffix) + 1, Len(name))) = suffix
            /\ name[Len(name) - Len(suffix)] = " "
        Suffix(suffixes) ==
            IF \E suffix \in suffixes : EndsWith(suffix)
            THEN CHOOSE suffix \in suffixes : EndsWith(suffix)
            ELSE <<>>
        Stripped(suffix) ==
            IF suffix = <<>> THEN name
            ELSE RStrip(SubSeq(name, 1, Len(name) - Len(suffix)))
        Normalized(stripped) ==
            LowerStr(Strip(JoinSplit(SelectSeq(stripped, LAMBDA c : c /= "."))))
    IN IF name = <<>> THEN <<>>
       ELSE Normalized(Stripped(Suffix({ <<"j", "r", ".">>, <<"j", "r">>,
                                         <<"s", "r", ".">>, <<"s", "r">>,
                                         <<"i", "i", "i">>, <<"i", "i">>,
                                         <<"i", "v">> })))

\* a variant of calculate_game_score without the missed free throws
calculate_game_score_without_misses(stats) ==
    10 * stats.pts + 4 * stats.fg - 7 * stats.fga
       + 7 * stats.orb + 3 * stats.drb + 10 * stats.stl + 7 * stats.ast
       + 7 * stats.blk - 4 * stats.pf - 10 * stats.tov

\* calculate_game_score(stats) in tenths: the weights 0.4, 0.7, 0.3 and the
\* round(., 1) of a sum of ints and tenths
calculate_game_score(stats) ==
    10 * stats.pts + 4 * stats.fg - 7 * stats.fga - 4 * (stats.fta - stats.ft)
       + 7 * stats.orb + 3 * stats.drb + 10 * stats.stl + 7 * stats.ast
       + 7 * stats.blk - 4 * stats.pf - 10 * stats.tov

\* is_triple_double(stats) with the default threshold
is_triple_double(stats) ==
    LET categories == {"pts", "trb", "ast", "stl", "blk"}
        threshold == 10
        counts == Cardinality({ cat \in categories : stats[cat] >= threshold })
    IN counts >= 3

\* is_double_double(stats) with the default threshold
is_double_double(stats) ==
    LET categories == {"pts", "trb", "ast", "stl", "blk"}
        threshold == 10
        counts == Cardinality({ cat \in categories : stats[cat] >= threshold })
    IN counts >= 2

\* calculate_true_shooting(pts, fga, fta) in thousandths, <<>> for None:
\* pts / (2 * (fga + 0.44 * fta)) = 100 * pts / (200 * fga + 88 * fta)
calculate_true_shooting(pts, fga, fta) ==
    IF 200 * fga + 88 * fta = 0 THEN <<>>
    ELSE <<RoundHalfEven(1000 * 100 * pts, 200 * fga + 88 * fta)>>

\* calculate_effective_fg_pct(fg, fg3, fga) in thousandths, <<>> for None:
\* (fg + 0.5 * fg3) / fga = (2 * fg + fg3) / (2 * fga)
calculate_effective_fg_pct(fg, fg3, fga) ==
    IF fga = 0 THEN <<>>
    ELSE <<RoundHalfEven(1000 * (2 * fg + fg3), 2 * fga)>>

\* ------------------------------------------------------------------------
\* PlayerStatsProcessor (src/processors/player_stats_processor.py).
\* Minutes are kept in sixtieths, game scores in tenths.  The dicts keyed
\* by player (player_totals, player_games, player_teams,
\* player_season_highs) get their keys in the same iteration, so they are
\* kept as one sequence of per-player entries in insertion order.
\* ------------------------------------------------------------------------
StatKeys ==
    {"pts", "trb", "ast", "stl", "blk", "tov", "pf", "fg", "fga", "fg3", "fg3a",
     "ft", "fta", "orb", "drb", "plus_minus"}

HighCategories == {"pts", "trb", "ast", "stl", "blk", "fg3", "game_score", "plus_minus"}

\* the value -999 of the game_score and plus_minus highs before any game
NoHighValue == -999

High(value, game_id, date, opponent) ==
    [value |-> value, game_id |-> game_id, date |-> date, opponent |-> opponent]

\* the highs that the defaultdict creates for a key
DefaultHighs ==
    [cat \in HighCategories |->
        IF cat = "game_score" THEN High(10 * NoHighValue, <<>>, <<>>, <<>>)
        ELSE IF cat = "plus_minus" THEN High(NoHighValue, <<>>, <<>>, <<>>)
        ELSE High(0, <<>>, <<>>, <<>>)]

\* the totals of a defaultdict(int) before any row
ZeroTotals == [k \in StatKeys \cup {"games", "minutes", "wins"} |-> 0]

\* the starter or bench totals of a team before any row
ZeroSplit == [k \in StatKeys \cup {"games", "minutes"} |-> 0]

\* PlayerStatsProcessor.__init__
NewProcessor(game_list) ==
    [constructed |-> TRUE, games |-> game_list, players |-> <<>>,
     player_ids |-> {}, starter_totals |-> [team \in {} |-> ZeroSplit],
     bench_totals |-> [team \in {} |-> ZeroSplit], triple_doubles |-> <<>>,
     double_doubles |-> <<>>]

\* BaseProcessor.get_basic_info, get_game_id, get_players_for_side
get_basic_info(game) == Get(game, "basic_info", EmptyDict)

get_game_id(game) == Get(game, "game_id", <<"U", "N", "K", "N", "O", "W", "N">>)

get_players_for_side(game, side) ==
    LET side_data == Get(Get(game, "box_score", EmptyDict), side, EmptyDict)
        players == Get(side_data, "players", <<>>)
    IN IF players = <<>> THEN Get(side_data, "basic", <<>>) ELSE players

\* what the loops over games and sides fix for a row (lines 84-96), and
\* 'W' if won else 'L'
RowContext(game, side) ==
    LET Result(basic_info, team, opponent, team_score, opp_score) ==
            [game_id |-> get_game_id(game),
             date |-> Get(basic_info, "date", <<>>),
             date_yyyymmdd |-> Get(basic_info, "date_yyyymmdd", <<>>),
             game_type |-> Get(basic_info, "game_type",
                               <<"r", "e", "g", "u", "l", "a", "r">>),
             season |-> Get(basic_info, "season", <<>>),
             team |-> team,
             opponent |-> opponent,
             team_score |-> team_score,
             opp_score |-> opp_score,
             won |-> team_score > opp_score,
             result |-> IF team_score > opp_score THEN <<"W">> ELSE <<"L">>]
        Context(basic_info, team_key, opponent_key, team_score_key, opp_score_key) ==
            Result(basic_info,
                   Get(basic_info, team_key, <<>>),
                   Get(basic_info, opponent_key, <<>>),
                   SafeIntOf(basic_info, team_score_key, 0),
                   SafeIntOf(basic_info, opp_score_key, 0))
    IN IF side = "away"
       THEN Context(get_basic_info(game), "away_team", "home_team",
                    "away_score", "home_score")
       ELSE Context(get_basic_info(game), "home_team", "away_team",
                    "home_score", "away_score")

\* a variant of Unnamed that drops no row
UnnamedNever(player) == FALSE

\* if not player_name: continue
Unnamed(player) == Get(player, "name", <<>>) = <<>>

\* player_stats = {stat: safe_int(player.get(stat, 0)) for stat in stat_keys}
PlayerStats(player) == [stat \in StatKeys |-> SafeIntOf(player, stat, 0)]

\* key = player_id if player_id else normalize_name(player_name)
PlayerKey(player) ==
    IF Get(player, "player_id", <<>>) /= <<>> THEN player.player_id
    ELSE normalize_name(Get(player, "name", <<>>))

\* a variant of Counted that takes every named row as a game played
CountedAlways(minutes, pts) == TRUE

\* if minutes > 0 or safe_int(player.get('pts', 0)) > 0
Counted(minutes, pts) == minutes > 0 \/ pts > 0

\* a variant of UpdateHighs that lets a new points high carry every
\* category with it
UpdateHighsTogether(highs, stats, plus_minus, game_score, ctx) ==
    [cat \in HighCategories |->
        LET value == IF cat = "plus_minus" THEN plus_minus
                     ELSE IF cat = "game_score" THEN game_score
                     ELSE stats[cat]
        IN IF value > highs[cat].value \/ stats.pts > highs.pts.value
           THEN High(value, ctx.game_id, ctx.date, ctx.opponent)
           ELSE highs[cat]]

\* lines 147-173: each category keeps its own maximum and where it was set
UpdateHighs(highs, stats, plus_minus, game_score, ctx) ==
    [cat \in HighCategories |->
        LET value == IF cat = "plus_minus" THEN plus_minus
                     ELSE IF cat = "game_score" THEN game_score
                     ELSE stats[cat]
        IN IF value > highs[cat].value
           THEN High(value, ctx.game_id, ctx.date, ctx.opponent)
           ELSE highs[cat]]

\* the per-game record of lines 206-221
GameRecord(player, stats, minutes, game_score, ctx) ==
    [player |-> player.name, player_id |-> Get(player, "player_id", <<>>),
     date |-> ctx.date, date_yyyymmdd |-> ctx.date_yyyymmdd,
     team |-> ctx.team, opponent |-> ctx.opponent,
     result |-> ctx.result,
     score |-> ScoreStr(ctx.team_score, ctx.opp_score),
     game_id |-> ctx.game_id, game_type |-> ctx.game_type,
     season |-> ctx.season, starter |-> Get(player, "starter", FALSE),
     mp |-> minutes, game_score |-> game_score] @@ stats

\* the entries of lines 177-190 and 192-203
TripleDoubleRecord(player, stats, ctx) ==
    [player |-> player.name, player_id |-> Get(player, "player_id", <<>>),
     date |-> ctx.date, team |-> ctx.team, opponent |-> ctx.opponent,
     pts |-> stats.pts, trb |-> stats.trb, ast |-> stats.ast,
     stl |-> stats.stl, blk |-> stats.blk,
     game_id |-> ctx.game_id, result |-> ctx.result]

DoubleDoubleRecord(player, stats, ctx) ==
    [player |-> player.name, player_id |-> Get(player, "player_id", <<>>),
     date |-> ctx.date, team |-> ctx.team, opponent |-> ctx.opponent,
     pts |-> stats.pts, trb |-> stats.trb, ast |-> stats.ast,
     game_id |-> ctx.game_id, result |-> ctx.result]

\* lines 140-144 on split_dict[team]
AddSplit(split, team, stats, minutes) ==
    [t \in DOMAIN split \cup {team} |->
        LET old == IF t \in DOMAIN split THEN split[t] ELSE ZeroSplit
        IN IF t /= team THEN old
           ELSE [k \in DOMAIN ZeroSplit |->
                   old[k] + (IF k \in StatKeys THEN stats[k]
                             ELSE IF k = "games" THEN 1
                             ELSE minutes)]]

\* lines 116-129 on player_totals[key]
AddTotals(totals, stats, minutes, won) ==
    [k \in DOMAIN ZeroTotals |->
        totals[k] + (IF k \in StatKeys THEN stats[k]
                     ELSE IF k = "games"
                     THEN (IF Counted(minutes, stats.pts) THEN 1 ELSE 0)
                     ELSE IF k = "minutes"
                     THEN (IF Counted(minutes, stats.pts) THEN minutes ELSE 0)
                     ELSE (IF won THEN 1 ELSE 0))]

HasEntry(players, key) == \E i \in 1..Len(players) : players[i].key = key

\* a variant of AddMilestone that tests the double-double on its own
AddMilestoneBoth(proc, player, stats, ctx) ==
    [proc EXCEPT
       !.triple_doubles = IF is_triple_double(stats)
                          THEN Append(@, TripleDoubleRecord(player, stats, ctx))
                          ELSE @,
       !.double_doubles = IF is_double_double(stats)
                          THEN Append(@, DoubleDoubleRecord(player, stats, ctx))
                          ELSE @]

\* lines 176-203: if is_triple_double(...) ... elif is_double_double(...) ...
AddMilestone(proc, player, stats, ctx) ==
    IF is_triple_double(stats)
    THEN [proc EXCEPT !.triple_doubles = Append(@, TripleDoubleRecord(player, stats, ctx))]
    ELSE IF is_double_double(stats)
    THEN [proc EXCEPT !.double_doubles = Append(@, DoubleDoubleRecord(player, stats, ctx))]
    ELSE proc

\* one iteration of the loop over the players of a side (lines 100-221):
\* ctx is what the outer loops fixed, stats is player_stats, known is the
\* entries after the defaultdicts created one for a new key
AggregateRow(proc, game, side, player) ==
    LET Update(e, ctx, stats, minutes, game_score) ==
            [e EXCEPT !.name = Get(player, "name", <<>>),
                      !.teams = @ \cup {ctx.team},
                      !.totals = AddTotals(@, stats, minutes, ctx.won),
                      !.highs = UpdateHighs(@, stats,
                                            SafeIntOf(player, "plus_minus", NoHighValue),
                                            game_score, ctx),
                      !.games = Append(@, GameRecord(player, stats, minutes,
                                                     game_score, ctx))]
        Accumulated(ctx, key, stats, minutes, known) ==
            [proc EXCEPT
               !.players = [i \in 1..Len(known) |->
                              IF known[i].key = key
                              THEN Update(known[i], ctx, stats, minutes,
                                          calculate_game_score(stats))
                              ELSE known[i]],
               !.player_ids = IF Get(player, "player_id", <<>>) /= <<>>
                              THEN @ \cup {key} ELSE @,
               !.starter_totals = IF Get(player, "starter", FALSE)
                                  THEN AddSplit(@, ctx.team, stats, minutes) ELSE @,
               !.bench_totals = IF Get(player, "starter", FALSE) THEN @
                                ELSE AddSplit(@, ctx.team, stats, minutes)]
        Known(key) ==
            IF HasEntry(proc.players, key) THEN proc.players
            ELSE Append(proc.players,
                        [key |-> key, name |-> <<>>, teams |-> {},
                         totals |-> ZeroTotals, highs |-> DefaultHighs,
                         games |-> <<>>])
        Row(ctx, key, stats, minutes) ==
            AddMilestone(Accumulated(ctx, key, stats, minutes, Known(key)),
                         player, stats, ctx)
    IN IF Unnamed(player) THEN proc
       ELSE Row(RowContext(game, side), PlayerKey(player), PlayerStats(player),
                parse_minutes(Get(player, "mp", PyInt(0))))

\* the rows in the order of the three nested loops: games, sides, players
RECURSIVE AllRows(_)
AllRows(game_list) ==
    LET SideRows(game, side) ==
            LET players == get_players_for_side(game, side)
            IN [i \in 1..Len(players) |->
                  [game |-> game, side |-> side, player |-> players[i]]]
    IN IF game_list = <<>> THEN <<>>
       ELSE SideRows(Head(game_list), "away") \o SideRows(Head(game_list), "home")
               \o AllRows(Tail(game_list))

\* the accumulators after the first n rows
RECURSIVE AggregateLoop(_, _, _)
AggregateLoop(proc, rows, n) ==
    IF n = 0 THEN proc
    ELSE AggregateRow(AggregateLoop(proc, rows, n - 1),
                      rows[n].game, rows[n].side, rows[n].player)

\* _aggregate_player_stats: it adds to the accumulators that __init__ made
aggregate_player_stats(proc) ==
    AggregateLoop(proc, AllRows(proc.games), Len(AllRows(proc.games)))

\* ------------------------------------------------------------------------
\* The six tables.  A DataFrame is its list of column names and its rows;
\* pd.DataFrame() has neither.  An average is kept in tenths, a percentage
\* in thousandths.
\* ------------------------------------------------------------------------
\* rows.sort(key=lambda x: x[field], reverse=True) and sorted(...,
\* reverse=True) are stable: rows of equal key keep their order.  The key
\* is an int or a str.
RECURSIVE InsertDesc(_, _, _, _)
InsertDesc(sorted, x, field, is_str) ==
    IF sorted = <<>> THEN <<x>>
    ELSE IF (IF is_str THEN ~StrLess(Head(sorted)[field], x[field])
             ELSE Head(sorted)[field] >= x[field])
         THEN <<Head(sorted)>> \o InsertDesc(Tail(sorted), x, field, is_str)
         ELSE <<x>> \o sorted

RECURSIVE SortDesc(_, _, _)
SortDesc(rows, field, is_str) ==
    IF rows = <<>> THEN <<>>
    ELSE InsertDesc(SortDesc(SubSeq(rows, 1, Len(rows) - 1), field, is_str),
                    rows[Len(rows)], field, is_str)

\* ', '.join(sorted(S)) for a set of strs
RECURSIVE JoinSorted(_)
JoinSorted(S) ==
    LET Join(least) == IF S = {least} THEN least
                       ELSE least \o <<",", " ">> \o JoinSorted(S \ {least})
    IN IF S = {} THEN <<>>
       ELSE Join(CHOOSE x \in S : \A y \in S : ~StrLess(y, x))

\* BaseProcessor.create_dataframe: no rows give pd.DataFrame()
create_dataframe(rows, columns) ==
    IF rows = <<>> THEN [columns |-> <<>>, rows |-> <<>>]
    ELSE [columns |-> columns, rows |-> rows]

\* round(total / games, 1) in tenths
PerGame(total, n) == RoundHalfEven(10 * total, n)

\* a variant of Percentage that halves the quotient
PercentageHalved(makes, attempts) ==
    IF attempts > 0 THEN RoundHalfEven(1000 * makes, 2 * attempts) ELSE 0

\* round(makes / attempts, 3) if attempts > 0 else 0, in thousandths
Percentage(makes, attempts) ==
    IF attempts > 0 THEN RoundHalfEven(1000 * makes, attempts) ELSE 0

\* _create_players_dataframe: a row per player with a game played (lines
\* 227-284), sorted by Total PTS; player_ids[key] is the key itself
\* whenever it is set, and MPG divides sixtieths
create_players_dataframe(proc) ==
    LET OrZero(x) == IF x = <<>> THEN 0 ELSE x[1]
        \* totals is player_totals[key] and n its games
        Row(e, totals, n) ==
            [Player |-> e.name, Player_ID |-> e.key,
             Team |-> JoinSorted(e.teams),
             Games |-> n, Wins |-> totals.wins,
             MPG |-> RoundHalfEven(10 * totals.minutes, 60 * n),
             PPG |-> PerGame(totals.pts, n), RPG |-> PerGame(totals.trb, n),
             APG |-> PerGame(totals.ast, n), SPG |-> PerGame(totals.stl, n),
             BPG |-> PerGame(totals.blk, n), TOPG |-> PerGame(totals.tov, n),
             FG_pct |-> Percentage(totals.fg, totals.fga),
             FG3_pct |-> Percentage(totals.fg3, totals.fg3a),
             FT_pct |-> Percentage(totals.ft, totals.fta),
             TS_pct |-> OrZero(calculate_true_shooting(totals.pts, totals.fga,
                                                       totals.fta)),
             eFG_pct |-> OrZero(calculate_effective_fg_pct(totals.fg, totals.fg3,
                                                           totals.fga)),
             Total_PTS |-> totals.pts, Total_REB |-> totals.trb,
             Total_AST |-> totals.ast, Total_STL |-> totals.stl,
             Total_BLK |-> totals.blk, Total_TOV |-> totals.tov,
             FGM |-> totals.fg, FGA |-> totals.fga, FG3M |-> totals.fg3,
             FG3A |-> totals.fg3a, FTM |-> totals.ft, FTA |-> totals.fta,
             Total_plus_minus |-> totals.plus_minus]
        Rows(played) ==
            [i \in 1..Len(played) |->
                Row(played[i], played[i].totals, played[i].totals.games)]
    IN create_dataframe(
           SortDesc(Rows(SelectSeq(proc.players, LAMBDA e : e.totals.games /= 0)),
                    "Total_PTS", FALSE),
           <<"Player", "Player ID", "Team", "Games", "Wins", "MPG",
             "PPG", "RPG", "APG", "SPG", "BPG", "TOPG",
             "FG%", "3P%", "FT%", "TS%", "eFG%",
             "Total PTS", "Total REB", "Total AST", "Total STL", "Total BLK",
             "Total TOV", "FGM", "FGA", "3PM", "3PA", "FTM", "FTA", "Total +/-">>)

\* all_game_rows.extend(games) for each player
RECURSIVE AllGameRows(_)
AllGameRows(players) ==
    IF players = <<>> THEN <<>>
    ELSE Head(players).games \o AllGameRows(Tail(players))

\* _create_player_games_dataframe: the columns listed, then those the
\* records hold besides
create_player_games_dataframe(proc) ==
    create_dataframe(SortDesc(AllGameRows(proc.players), "date_yyyymmdd", TRUE),
                     <<"player", "player_id", "date", "team", "opponent", "result",
                       "score", "game_type", "starter", "mp", "pts", "trb", "ast",
                       "stl", "blk", "fg", "fga", "fg3", "fg3a", "ft", "fta", "tov",
                       "pf", "plus_minus", "game_score", "game_id",
                       "date_yyyymmdd", "season", "orb", "drb">>)

\* the rows of the teams in sorted order (lines 322-360): two per team,
\* none for a team without games
RECURSIVE SplitRows(_, _)
SplitRows(proc, teams) ==
    LET calc_avg(total, n, den) == IF n = 0 THEN 0 ELSE RoundHalfEven(10 * total, den * n)
        Row(team, type, split) ==
            [Team |-> team, Type |-> type, Games |-> split.games,
             PPG |-> calc_avg(split.pts, split.games, 1),
             RPG |-> calc_avg(split.trb, split.games, 1),
             APG |-> calc_avg(split.ast, split.games, 1),
             MPG |-> calc_avg(split.minutes, split.games, 60),
             Total_PTS |-> split.pts, Total_REB |-> split.trb,
             Total_AST |-> split.ast]
        \* split_dict.get(team, {}) with .get(k, 0) on it
        Split(split_dict, team) ==
            IF team \in DOMAIN split_dict THEN split_dict[team] ELSE ZeroSplit
        Both(team, starter, bench) ==
            IF starter.games = 0 /\ bench.games = 0 THEN <<>>
            ELSE <<Row(team, <<"S", "t", "a", "r", "t", "e", "r", "s">>, starter),
                   Row(team, <<"B", "e", "n", "c", "h">>, bench)>>
        From(team) ==
            Both(team, Split(proc.starter_totals, team), Split(proc.bench_totals, team))
               \o SplitRows(proc, teams \ {team})
    IN IF teams = {} THEN <<>>
       ELSE From(CHOOSE x \in teams : \A y \in teams : ~StrLess(y, x))

create_starters_bench_dataframe(proc) ==
    create_dataframe(SplitRows(proc, DOMAIN proc.starter_totals
                                        \cup DOMAIN proc.bench_totals),
                     <<"Team", "Type", "Games", "PPG", "RPG", "APG", "MPG",
                       "Total PTS", "Total REB", "Total AST">>)

\* _create_season_highs_dataframe: a row per player (lines 378-397) unless
\* the points high is 0 and no game score was stored, sorted by High PTS
create_season_highs_dataframe(proc) ==
    LET Row(e) ==
            [Player |-> e.name, Player_ID |-> e.key,
             Team |-> JoinSorted(e.teams),
             High_PTS |-> e.highs.pts.value, PTS_Game |-> e.highs.pts.date,
             PTS_Opponent |-> e.highs.pts.opponent,
             High_REB |-> e.highs.trb.value, REB_Game |-> e.highs.trb.date,
             REB_Opponent |-> e.highs.trb.opponent,
             High_AST |-> e.highs.ast.value, AST_Game |-> e.highs.ast.date,
             AST_Opponent |-> e.highs.ast.opponent,
             High_3PM |-> e.highs.fg3.value, FG3M_Game |-> e.highs.fg3.date,
             High_plus_minus |-> IF e.highs.plus_minus.value > NoHighValue
                                 THEN e.highs.plus_minus.value ELSE 0,
             plus_minus_Game |-> e.highs.plus_minus.date,
             Best_Game_Score |-> IF e.highs.game_score.value > 10 * NoHighValue
                                 THEN e.highs.game_score.value ELSE 0,
             Best_GS_Date |-> e.highs.game_score.date]
        Rows(listed) == [i \in 1..Len(listed) |-> Row(listed[i])]
    IN create_dataframe(
           SortDesc(Rows(SelectSeq(proc.players,
                                   LAMBDA e : ~(/\ e.highs.pts.value = 0
                                                /\ e.highs.game_score.value
                                                      <= 10 * NoHighValue))),
                    "High_PTS", FALSE),
           <<"Player", "Player ID", "Team", "High PTS", "PTS Game", "PTS Opponent",
             "High REB", "REB Game", "REB Opponent",
             "High AST", "AST Game", "AST Opponent",
             "High 3PM", "3PM Game", "High +/-", "+/- Game",
             "Best Game Score", "Best GS Date">>)

create_triple_doubles_dataframe(proc) ==
    create_dataframe(SortDesc(proc.triple_doubles, "date", TRUE),
                     <<"player", "player_id", "date", "team", "opponent", "result",
                       "pts", "trb", "ast", "stl", "blk", "game_id">>)

create_double_doubles_dataframe(proc) ==
    create_dataframe(SortDesc(proc.double_doubles, "date", TRUE),
                     <<"player", "player_id", "date", "team", "opponent", "result",
                       "pts", "trb", "ast", "game_id">>)

\* process_all_player_stats on a processor: the accumulators it leaves and
\* the dict of the six tables it returns
process_all_player_stats(proc) ==
    LET Tables(after) ==
            [processor |-> after,
             value |-> [players |-> create_players_dataframe(after),
                        player_games |-> create_player_games_dataframe(after),
                        starters_vs_bench |-> create_starters_bench_dataframe(after),
                        season_highs |-> create_season_highs_dataframe(after),
                        triple_doubles |-> create_triple_doubles_dataframe(after),
                        double_doubles |-> create_double_doubles_dataframe(after)]]
    IN Tables(aggregate_player_stats(proc))

\* ------------------------------------------------------------------------
\* Actions of the aggregator
\* ------------------------------------------------------------------------
MaxCalls == 2

\* PlayerStatsProcessor(games)
ProcessorInit ==
    /\ ~processor.constructed
    /\ processor' = NewProcessor(games)
    /\ UNCHANGED <<fetch, espn_pbp, game_data, engine, pc, ret, games, calls>>

ProcessAllPlayerStats ==
    /\ processor.constructed
    /\ calls < MaxCalls
    /\ LET result == process_all_player_stats(processor)
       IN /\ processor' = result.processor
          /\ ret' = Outcome("process_all_player_stats", calls + 1, FALSE, result.value)
    /\ calls' = calls + 1
    /\ UNCHANGED <<fetch, espn_pbp, game_data, engine, pc, games>>

\* ------------------------------------------------------------------------
\* Inputs of the aggregator: parsed games as src/parsers/html_parser.py and
\* stats_parser.py build them.  A played row carries the stats as ints and
\* mp as "MM:SS"; a did-not-play row carries a reason and no stat.
\* ------------------------------------------------------------------------
MaxGames == 3

GamePool ==
    LET Al == <<"A", "l">>
        AlId == <<"a", "l", "0", "1">>
        BoJr == <<"B", "o", " ", "J", "r", ".">>
        Bo == <<"B", "o">>
        Cy == <<"C", "y">>
        CyId == <<"c", "y", "0", "1">>
        BOS == <<"B", "O", "S">>
        LAL == <<"L", "A", "L">>
        NYK == <<"N", "Y", "K">>
        Stats(pts, trb, ast, stl, blk, fg, fga, fg3, fg3a, ft, fta, plus_minus) ==
            [pts |-> PyInt(pts), trb |-> PyInt(trb), ast |-> PyInt(ast),
             stl |-> PyInt(stl), blk |-> PyInt(blk), tov |-> PyInt(1),
             pf |-> PyInt(2), fg |-> PyInt(fg), fga |-> PyInt(fga),
             fg3 |-> PyInt(fg3), fg3a |-> PyInt(fg3a), ft |-> PyInt(ft),
             fta |-> PyInt(fta), orb |-> PyInt(0), drb |-> PyInt(trb),
             plus_minus |-> PyInt(plus_minus)]
        Row(name, player_id, starter, mp, stats) ==
            [name |-> name, player_id |-> player_id, starter |-> starter,
             mp |-> mp] @@ stats
        Mp(m1, m2, s1, s2) == PyStr(<<m1, m2, ":", s1, s2>>)
        AlBig == Row(Al, AlId, TRUE, Mp("3", "0", "0", "0"),
                     Stats(40, 10, 2, 1, 0, 10, 20, 4, 8, 16, 18, 12))
        AlBoards == Row(Al, AlId, TRUE, Mp("2", "0", "0", "0"),
                        Stats(5, 25, 3, 0, 2, 0, 10, 0, 2, 5, 6, -3))
        AlTie == Row(Al, AlId, TRUE, Mp("3", "5", "0", "0"),
                     Stats(40, 3, 11, 0, 0, 14, 28, 2, 5, 10, 10, 5))
        BoTriple == Row(BoJr, <<>>, FALSE, Mp("1", "2", "3", "0"),
                        Stats(10, 10, 10, 0, 0, 4, 9, 0, 1, 2, 2, 0))
        BoDouble == Row(Bo, <<>>, FALSE, Mp("2", "5", "1", "5"),
                        Stats(12, 11, 4, 1, 0, 5, 8, 1, 3, 1, 4, 7))
        \* a did-not-play row
        CyDnp ==
            [name |-> Cy, player_id |-> CyId, starter |-> FALSE,
             reason |-> PyStr(<<"D", "i", "d", " ", "N", "o", "t", " ",
                                "P", "l", "a", "y">>)]
        \* minutes given as a number, an offensive rebound, and empty cells
        \* (None) for blocks and three-pointers
        CyInt == [Row(Cy, CyId, FALSE, PyInt(25),
                      Stats(8, 2, 1, 0, 0, 3, 4, 0, 0, 2, 2, -1))
                    EXCEPT !.orb = PyInt(1), !.drb = PyInt(1), !.blk = PyNone,
                           !.fg3 = PyNone, !.fg3a = PyNone]
        \* points without minutes: an empty cell is None
        CyPoints == Row(Cy, CyId, FALSE, PyNone,
                        Stats(2, 0, 0, 0, 0, 1, 1, 0, 0, 0, 0, 0))
        \* minutes on the floor without a shot
        CyScoreless == Row(Cy, CyId, FALSE, Mp("0", "5", "0", "0"),
                           Stats(0, 0, 0, 0, 0, 0, 0, 0, 0, 0, 0, -2))
        \* a row of Al whose cell carried no identifier
        AlNoId == Row(Al, <<>>, TRUE, Mp("1", "5", "0", "0"),
                      Stats(6, 4, 2, 0, 0, 3, 6, 0, 1, 0, 0, 1))
        \* a row without a player name
        Nameless == Row(<<>>, <<>>, FALSE, Mp("1", "0", "0", "0"),
                        Stats(7, 1, 1, 0, 0, 3, 5, 1, 2, 0, 0, 2))
        Day(d1, d2) == <<"J", "a", "n", " ", d1, d2>>
        Ymd(d1, d2) == <<"2", "0", "2", "4", "0", "1", d1, d2>>
        Game(d1, d2, away_team, away_score, home_team, home_score,
             away_players, home_players) ==
            [game_id |-> Ymd(d1, d2) \o <<"0">> \o home_team,
             basic_info |-> [date |-> Day(d1, d2), date_yyyymmdd |-> Ymd(d1, d2),
                             away_team |-> away_team, home_team |-> home_team,
                             away_score |-> PyInt(away_score),
                             home_score |-> PyInt(home_score),
                             game_type |-> <<"r", "e", "g", "u", "l", "a", "r">>,
                             season |-> <<"2", "0", "2", "3", "-", "2", "4">>],
             box_score |-> [away |-> [players |-> away_players],
                            home |-> [players |-> home_players]]]
    IN { Game("0", "5", BOS, 100, LAL, 90, <<AlBig>>, <<BoTriple>>),
         Game("0", "7", BOS, 90, LAL, 95, <<AlBoards>>, <<BoDouble>>),
         Game("0", "9", LAL, 80, BOS, 100, <<CyDnp>>, <<AlTie>>),
         Game("1", "1", BOS, 101, LAL, 99, <<AlBoards, CyDnp>>, <<>>),
         Game("1", "3", NYK, 88, LAL, 90, <<AlBig>>, <<Nameless, CyPoints>>),
         Game("1", "5", LAL, 110, NYK, 100, <<CyInt>>, <<AlTie>>),
         Game("1", "7", LAL, 105, NYK, 95, <<CyScoreless>>, <<>>),
         Game("1", "9", BOS, 97, NYK, 99, <<AlNoId>>, <<>>) }

\* main hands the parsed games to the processor: a list of distinct games
InitPlayers ==
    /\ games \in UNION { { gs \in [1..n -> GamePool] :
                             \A i, j \in 1..n : gs[i] = gs[j] => i = j } :
                         n \in 0..MaxGames }
    /\ espn_pbp = ParsedPbp(<<>>)
    /\ game_data = GameData(0, 0)
    /\ engine = NoEngine
    /\ pc = "new"
    /\ ret = NoRet
    /\ processor = NoProcessor
    /\ fetch = NoFetch
    /\ calls = 0

NextPlayers ==
    \/ ProcessorInit
    \/ ProcessAllPlayerStats

SpecPlayers == InitPlayers /\ [][NextPlayers]_vars

\* ------------------------------------------------------------------------
\* Claims on the aggregator (SpecPlayers)
\* ------------------------------------------------------------------------
\* the six tables of a processor built on the games and run once
FreshTables(game_list) == process_all_player_stats(NewProcessor(game_list)).value

\* C15: calling process_all_player_stats() again on the same processor
\* returns the same six tables as the first call, each call recomputing
\* every aggregate from the games alone.
C15_SecondCallReturnsSameOutputs ==
    (ret.op = "process_all_player_stats" /\ calls = 2) => ret.value = FreshTables(games)

\* the games in another order
Reordered(game_list, perm) == [i \in 1..Len(game_list) |-> game_list[perm[i]]]

\* per player: the totals (games and wins among them), the team set and
\* the season highs with their provenance
PlayerAggregates(proc) ==
    { [key |-> proc.players[i].key, totals |-> proc.players[i].totals,
       teams |-> proc.players[i].teams, highs |-> proc.players[i].highs] :
      i \in 1..Len(proc.players) }

\* C16: for every permutation of the games list the aggregator yields the
\* same per-player totals, games, wins, team sets and season highs, the
\* game id, date and opponent of each high included.
C16_GameOrderDoesNotMatter ==
    (ret.op = "process_all_player_stats" /\ calls = 1) =>
        \A perm \in Permutations(1..Len(games)) :
            PlayerAggregates(aggregate_player_stats(NewProcessor(Reordered(games, perm))))
                = PlayerAggregates(processor)

\* the season highs stored for a key, those of the defaultdict when the key
\* is new
HighsOf(proc, key) ==
    IF HasEntry(proc.players, key)
    THEN proc.players[CHOOSE i \in 1..Len(proc.players) : proc.players[i].key = key].highs
    ELSE DefaultHighs

\* the value a row brings to a category of season highs
RowValue(player, cat) ==
    IF cat = "plus_minus" THEN SafeIntOf(player, "plus_minus", NoHighValue)
    ELSE IF cat = "game_score" THEN calculate_game_score(PlayerStats(player))
    ELSE SafeIntOf(player, cat, 0)

NamedRow(row) == Get(row.player, "name", <<>>) /= <<>>

\* the accumulators of a fresh processor after the first n rows of the games
AfterRows(n) == AggregateLoop(NewProcessor(games), AllRows(games), n)

\* C17: processing a player-game row replaces the stored high, value and
\* provenance, of exactly the categories in which the row's value exceeds
\* the stored maximum, and leaves every other category's high untouched.
C17_HighsUpdatedPerCategory ==
    (ret.op = "process_all_player_stats" /\ calls = 1) =>
        /\ processor = AfterRows(Len(AllRows(games)))
        /\ \A n \in 1..Len(AllRows(games)) :
             LET row == AllRows(games)[n]
                 key == PlayerKey(row.player)
                 ctx == RowContext(row.game, row.side)
                 before == HighsOf(AfterRows(n - 1), key)
                 after == HighsOf(AfterRows(n), key)
             IN NamedRow(row) =>
                  \A cat \in HighCategories :
                     IF RowValue(row.player, cat) > before[cat].value
                     THEN after[cat] = High(RowValue(row.player, cat), ctx.game_id,
                                            ctx.date, ctx.opponent)
                     ELSE after[cat] = before[cat]

\* a row with pts 5 and trb 25 after a best of pts 40 and trb 10 has moved
\* the rebound high to its game and left the points high where it was
C17_Witness ==
    /\ ret.op = "process_all_player_stats"
    /\ calls = 1
    /\ \E n \in 1..Len(AllRows(games)) :
         LET row == AllRows(games)[n]
             key == PlayerKey(row.player)
             before == HighsOf(AfterRows(n - 1), key)
             after == HighsOf(AfterRows(n), key)
         IN /\ RowValue(row.player, "pts") = 5
            /\ RowValue(row.player, "trb") = 25
            /\ before.pts.value = 40
            /\ before.trb.value = 10
            /\ after.pts = before.pts
            /\ after.trb.value = 25
            /\ after.trb.game_id = get_game_id(row.game)
            /\ after.trb.game_id /= after.pts.game_id
            /\ HighsOf(processor, key) = after

\* how many of pts, trb, ast, stl, blk of a row are at or above 10
CategoriesAtTen(player) ==
    Cardinality({cat \in {"pts", "trb", "ast", "stl", "blk"} : RowValue(player, cat) >= 10})

\* a milestone entry is the one of this row
EntryOfRow(entry, row) ==
    /\ entry.player = row.player.name
    /\ entry.game_id = get_game_id(row.game)
    /\ entry.team = RowContext(row.game, row.side).team

Listed(list, row) == \E i \in 1..Len(list) : EntryOfRow(list[i], row)

\* C18: a named row with at least 3 of pts, trb, ast, stl, blk at or above
\* 10 is entered as a triple-double and not as a double-double, a row with
\* exactly 2 as a double-double only, a row with fewer as neither; no row
\* is in both milestone lists.
C18_MilestonesMutuallyExclusive ==
    (ret.op = "process_all_player_stats" /\ calls = 1) =>
        /\ processor = AfterRows(Len(AllRows(games)))
        /\ \A n \in 1..Len(AllRows(games)) :
             LET row == AllRows(games)[n]
                 before == AfterRows(n - 1)
                 after == AfterRows(n)
                 triple == Len(after.triple_doubles) - Len(before.triple_doubles)
                 double == Len(after.double_doubles) - Len(before.double_doubles)
             IN NamedRow(row) =>
                  /\ SubSeq(after.triple_doubles, 1, Len(before.triple_doubles))
                        = before.triple_doubles
                  /\ SubSeq(after.double_doubles, 1, Len(before.double_doubles))
                        = before.double_doubles
                  /\ CategoriesAtTen(row.player) >= 3 => triple = 1 /\ double = 0
                  /\ CategoriesAtTen(row.player) = 2 => triple = 0 /\ double = 1
                  /\ CategoriesAtTen(row.player) < 2 => triple = 0 /\ double = 0
                  /\ triple = 1 =>
                        EntryOfRow(after.triple_doubles[Len(after.triple_doubles)], row)
                  /\ double = 1 =>
                        EntryOfRow(after.double_doubles[Len(after.double_doubles)], row)
                  /\ ~(Listed(processor.triple_doubles, row)
                         /\ Listed(processor.double_doubles, row))

\* a row with pts 10, trb 10, ast 10, stl 0, blk 0 is listed as a
\* triple-double only, next to a row with exactly two categories that is
\* listed as a double-double only
C18_Witness ==
    /\ ret.op = "process_all_player_stats"
    /\ calls = 1
    /\ \E n, m \in 1..Len(AllRows(games)) :
         LET row == AllRows(games)[n]
             other == AllRows(games)[m]
         IN /\ NamedRow(row)
            /\ \A cat \in {"pts", "trb", "ast"} : RowValue(row.player, cat) = 10
            /\ \A cat \in {"stl", "blk"} : RowValue(row.player, cat) = 0
            /\ Listed(processor.triple_doubles, row)
            /\ ~Listed(processor.double_doubles, row)
            /\ NamedRow(other)
            /\ CategoriesAtTen(other.player) = 2
            /\ Listed(processor.double_doubles, other)
            /\ ~Listed(processor.triple_doubles, other)

\* the totals stored for a key, zero when the key is new
TotalsOf(proc, key) ==
    IF HasEntry(proc.players, key)
    THEN proc.players[CHOOSE i \in 1..Len(proc.players) : proc.players[i].key = key].totals
    ELSE ZeroTotals

\* the minutes of a row in sixtieths, as the aggregator reads them
RowMinutes(player) == parse_minutes(Get(player, "mp", PyInt(0)))

\* C19: a named row adds exactly one to its player's games-played count
\* when its minutes are > 0 or its points are > 0 and leaves the count
\* unchanged otherwise.
C19_GamesCountedOnMinutesOrPoints ==
    (ret.op = "process_all_player_stats" /\ calls = 1) =>
        /\ processor = AfterRows(Len(AllRows(games)))
        /\ \A n \in 1..Len(AllRows(games)) :
             LET row == AllRows(games)[n]
                 key == PlayerKey(row.player)
                 before == TotalsOf(AfterRows(n - 1), key).games
                 after == TotalsOf(AfterRows(n), key).games
             IN NamedRow(row) =>
                  IF RowMinutes(row.player) > 0 \/ RowValue(row.player, "pts") > 0
                  THEN after = before + 1
                  ELSE after = before

\* a did-not-play row has left its player's count alone, a row with
\* minutes and a row with points but no minutes have each added one
C19_Witness ==
    /\ ret.op = "process_all_player_stats"
    /\ calls = 1
    /\ \E n, m, k \in 1..Len(AllRows(games)) :
         LET dnp == AllRows(games)[n].player
             played == AllRows(games)[m].player
             scored == AllRows(games)[k].player
         IN /\ NamedRow(AllRows(games)[n])
            /\ RowMinutes(dnp) = 0
            /\ RowValue(dnp, "pts") = 0
            /\ TotalsOf(AfterRows(n), PlayerKey(dnp)).games
                 = TotalsOf(AfterRows(n - 1), PlayerKey(dnp)).games
            /\ RowMinutes(played) > 0
            /\ TotalsOf(AfterRows(m), PlayerKey(played)).games
                 = TotalsOf(AfterRows(m - 1), PlayerKey(played)).games + 1
            /\ RowMinutes(scored) = 0
            /\ RowValue(scored, "pts") > 0
            /\ TotalsOf(AfterRows(k), PlayerKey(scored)).games
                 = TotalsOf(AfterRows(k - 1), PlayerKey(scored)).games + 1
            /\ TotalsOf(processor, PlayerKey(dnp)).games = 1

\* the sum of a stat over the named rows of a player among the first n rows
RECURSIVE SumOverRows(_, _, _, _)
SumOverRows(rows, n, key, stat) ==
    IF n = 0 THEN 0
    ELSE SumOverRows(rows, n - 1, key, stat)
           + (IF NamedRow(rows[n]) /\ PlayerKey(rows[n].player) = key
              THEN SafeIntOf(rows[n].player, stat, 0) ELSE 0)

\* a stat of a player summed over all the games
Summed(key, stat) == SumOverRows(AllRows(games), Len(AllRows(games)), key, stat)

\* makes / attempts rounded to 3 places, in thousandths; 0 without attempts
Quotient(makes, attempts) ==
    IF attempts > 0 THEN RoundHalfEven(1000 * makes, attempts) ELSE 0

\* C20: FG%, 3P%, FT%, TS% and eFG% of a player are computed from the
\* makes and attempts summed over all of the player's games, and are 0
\* when the summed attempts are 0.
C20_PercentagesFromSummedTotals ==
    (ret.op = "process_all_player_stats" /\ calls = 1) =>
        \A i \in 1..Len(ret.value.players.rows) :
            LET row == ret.value.players.rows[i]
                key == row.Player_ID
                pts == Summed(key, "pts")
                fg == Summed(key, "fg")
                fga == Summed(key, "fga")
                fg3 == Summed(key, "fg3")
                fg3a == Summed(key, "fg3a")
                ft == Summed(key, "ft")
                fta == Summed(key, "fta")
            IN /\ row.FGM = fg /\ row.FGA = fga
               /\ row.FG3M = fg3 /\ row.FG3A = fg3a
               /\ row.FTM = ft /\ row.FTA = fta
               /\ row.FG_pct = Quotient(fg, fga)
               /\ row.FG3_pct = Quotient(fg3, fg3a)
               /\ row.FT_pct = Quotient(ft, fta)
               /\ row.TS_pct = Quotient(100 * pts, 200 * fga + 88 * fta)
               /\ row.eFG_pct = Quotient(2 * fg + fg3, 2 * fga)

\* two games with 10/20 and 0/10 field goals give FG% 0.333, and a player
\* who played without an attempt has every percentage 0
C20_Witness ==
    /\ ret.op = "process_all_player_stats"
    /\ calls = 1
    /\ \E i, j \in 1..Len(ret.value.players.rows) :
         LET row == ret.value.players.rows[i]
             other == ret.value.players.rows[j]
         IN /\ \E n, m \in 1..Len(AllRows(games)) :
                 /\ PlayerKey(AllRows(games)[n].player) = row.Player_ID
                 /\ PlayerKey(AllRows(games)[m].player) = row.Player_ID
                 /\ SafeIntOf(AllRows(games)[n].player, "fg", 0) = 10
                 /\ SafeIntOf(AllRows(games)[n].player, "fga", 0) = 20
                 /\ SafeIntOf(AllRows(games)[m].player, "fg", 0) = 0
                 /\ SafeIntOf(AllRows(games)[m].player, "fga", 0) = 10
            /\ row.Games = 2
            /\ row.FGM = 10
            /\ row.FGA = 30
            /\ row.FG_pct = 333
            /\ other.Games = 1
            /\ other.FGA = 0 /\ other.FG3A = 0 /\ other.FTA = 0
            /\ other.FG_pct = 0 /\ other.FG3_pct = 0 /\ other.FT_pct = 0
            /\ other.TS_pct = 0 /\ other.eFG_pct = 0

\* the games without the box-score rows that carry no player name
NamedOnly(game_list) ==
    [g \in 1..Len(game_list) |->
        [game_list[g] EXCEPT
           !.box_score = [side \in DOMAIN @ |->
                            [players |-> SelectSeq(@[side].players,
                                                   LAMBDA p : ~Unnamed(p))]]]]

\* C21: a player-game row with no player name is dropped: it changes none
\* of the accumulators, the six tables are those of the games without the
\* row, and no error is raised.
C21_NamelessRowsDropped ==
    (ret.op = "process_all_player_stats" /\ calls = 1) =>
        /\ ret.raised = None
        /\ processor = AfterRows(Len(AllRows(games)))
        /\ \A n \in 1..Len(AllRows(games)) :
              ~NamedRow(AllRows(games)[n]) => AfterRows(n) = AfterRows(n - 1)
        /\ ret.value = FreshTables(NamedOnly(games))

\* a nameless row with 7 points and 10 minutes has been read between two
\* named rows and is in no table
C21_Witness ==
    /\ ret.op = "process_all_player_stats"
    /\ calls = 1
    /\ ret.raised = None
    /\ \E n \in 2..Len(AllRows(games)) - 1 :
         LET row == AllRows(games)[n]
         IN /\ ~NamedRow(row)
            /\ RowValue(row.player, "pts") = 7
            /\ RowMinutes(row.player) = 600
            /\ NamedRow(AllRows(games)[n - 1])
            /\ NamedRow(AllRows(games)[n + 1])
            /\ AfterRows(n) = AfterRows(n - 1)
    /\ Len(ret.value.player_games.rows) = Len(AllRows(games)) - 1
    /\ \A i \in 1..Len(ret.value.player_games.rows) :
          ret.value.player_games.rows[i].player /= <<>>
    /\ \A i \in 1..Len(ret.value.players.rows) :
          ret.value.players.rows[i].Player /= <<>>

\* two rows are rows of one person: their names normalize to the same name
\* and their identifiers, where both carry one, agree
SamePerson(p, q) ==
    /\ normalize_name(Get(p, "name", <<>>)) = normalize_name(Get(q, "name", <<>>))
    /\ \/ Get(p, "player_id", <<>>) = <<>>
       \/ Get(q, "player_id", <<>>) = <<>>
       \/ p.player_id = q.player_id

\* the season record a named row has been accumulated into
RecordOf(proc, row) ==
    CHOOSE i \in 1..Len(proc.players) : proc.players[i].key = PlayerKey(row.player)

\* C22: a named row is accumulated under its player identifier when it
\* carries one and under its normalized name otherwise, and the rows of one
\* person are accumulated into a single season record.
C22_OneRecordPerPerson ==
    (ret.op = "process_all_player_stats" /\ calls = 1) =>
        \A n, m \in 1..Len(AllRows(games)) :
            LET row == AllRows(games)[n]
                other == AllRows(games)[m]
            IN (NamedRow(row) /\ NamedRow(other)) =>
                 /\ PlayerKey(row.player)
                       = IF Get(row.player, "player_id", <<>>) /= <<>>
                         THEN row.player.player_id
                         ELSE normalize_name(row.player.name)
                 /\ HasEntry(processor.players, PlayerKey(row.player))
                 /\ SamePerson(row.player, other.player)
                       => RecordOf(processor, row) = RecordOf(processor, other)

\* the column names each table is built with (lines 288-294, 307-312,
\* 362-363, 401-405, 413-414, 422-423)
DocumentedColumns ==
    [players |->
        <<"Player", "Player ID", "Team", "Games", "Wins", "MPG",
          "PPG", "RPG", "APG", "SPG", "BPG", "TOPG",
          "FG%", "3P%", "FT%", "TS%", "eFG%",
          "Total PTS", "Total REB", "Total AST", "Total STL", "Total BLK",
          "Total TOV", "FGM", "FGA", "3PM", "3PA", "FTM", "FTA", "Total +/-">>,
     player_games |->
        <<"player", "player_id", "date", "team", "opponent", "result",
          "score", "game_type", "starter", "mp", "pts", "trb", "ast",
          "stl", "blk", "fg", "fga", "fg3", "fg3a", "ft", "fta", "tov",
          "pf", "plus_minus", "game_score", "game_id">>,
     starters_vs_bench |->
        <<"Team", "Type", "Games", "PPG", "RPG", "APG", "MPG",
          "Total PTS", "Total REB", "Total AST">>,
     season_highs |->
        <<"Player", "Player ID", "Team", "High PTS", "PTS Game", "PTS Opponent",
          "High REB", "REB Game", "REB Opponent",
          "High AST", "AST Game", "AST Opponent",
          "High 3PM", "3PM Game", "High +/-", "+/- Game",
          "Best Game Score", "Best GS Date">>,
     triple_doubles |->
        <<"player", "player_id", "date", "team", "opponent", "result",
          "pts", "trb", "ast", "stl", "blk", "game_id">>,
     double_doubles |->
        <<"player", "player_id", "date", "team", "opponent", "result",
          "pts", "trb", "ast", "game_id">>]

\* C23: with an empty games list process_all_player_stats raises no error
\* and returns the six named tables, each without rows and with its
\* documented columns.
C23_EmptyGamesGiveShapedEmptyTables ==
    (ret.op = "process_all_player_stats" /\ calls = 1 /\ games = <<>>) =>
        /\ ret.raised = None
        /\ DOMAIN ret.value = DOMAIN DocumentedColumns
        /\ \A name \in DOMAIN DocumentedColumns :
              /\ ret.value[name].rows = <<>>
              /\ \A i \in 1..Len(DocumentedColumns[name]) :
                    \E j \in 1..Len(ret.value[name].columns) :
                        ret.value[name].columns[j] = DocumentedColumns[name][i]


\* a stat of a row as a number: the int the row carries, 0 when the stat
\* is missing or is not a number
StatOrZero(player, stat) ==
    IF HasKey(player, stat) /\ "int" \in DOMAIN player[stat] THEN player[stat].int
    ELSE 0

\* ten times PTS + 0.4 FG - 0.7 FGA - 0.4 (FTA - FT) + 0.7 ORB + 0.3 DRB
\*   + STL + 0.7 AST + 0.7 BLK - 0.4 PF - TOV
Hollinger(player) ==
    10 * StatOrZero(player, "pts") + 4 * StatOrZero(player, "fg")
      - 7 * StatOrZero(player, "fga")
      - 4 * (StatOrZero(player, "fta") - StatOrZero(player, "ft"))
      + 7 * StatOrZero(player, "orb") + 3 * StatOrZero(player, "drb")
      + 10 * StatOrZero(player, "stl") + 7 * StatOrZero(player, "ast")
      + 7 * StatOrZero(player, "blk") - 4 * StatOrZero(player, "pf")
      - 10 * StatOrZero(player, "tov")

\* the per-game record that the n-th row left with its player
RecordOfRow(n) ==
    LET row == AllRows(games)[n]
        entry == AfterRows(n).players[RecordOf(AfterRows(n), row)]
    IN entry.games[Len(entry.games)]

\* the record of a row is in the player_games table
InPlayerGames(record) ==
    \E i \in 1..Len(ret.value.player_games.rows) :
        LET line == ret.value.player_games.rows[i]
        IN /\ line.player = record.player
           /\ line.game_id = record.game_id
           /\ line.team = record.team
           /\ line.game_score = record.game_score

\* C24: the game score of a player-game row is PTS + 0.4 FG - 0.7 FGA
\* - 0.4 (FTA - FT) + 0.7 ORB + 0.3 DRB + STL + 0.7 AST + 0.7 BLK - 0.4 PF
\* - TOV rounded to one decimal (here in tenths), every missing or
\* non-numeric stat counting as 0.
C24_GameScoreIsHollinger ==
    (ret.op = "process_all_player_stats" /\ calls = 1) =>
        /\ ret.raised = None
        /\ processor = AfterRows(Len(AllRows(games)))
        /\ \A n \in 1..Len(AllRows(games)) :
              NamedRow(AllRows(games)[n]) =>
                 /\ RecordOfRow(n).game_score = Hollinger(AllRows(games)[n].player)
                 /\ InPlayerGames(RecordOfRow(n))

\* a row with missed free throws (40 points, 16 of 18) has a game score of
\* 32.8, a row with an offensive rebound and empty cells one of 6.3, and a
\* did-not-play row without any stat one of 0.0
C24_Witness ==
    /\ ret.op = "process_all_player_stats"
    /\ calls = 1
    /\ \E n, m, k \in 1..Len(AllRows(games)) :
         LET full == AllRows(games)[n].player
             holes == AllRows(games)[m].player
             dnp == AllRows(games)[k].player
         IN /\ NamedRow(AllRows(games)[n])
            /\ StatOrZero(full, "fta") = 18 /\ StatOrZero(full, "ft") = 16
            /\ RecordOfRow(n).game_score = 328
            /\ NamedRow(AllRows(games)[m])
            /\ HasKey(holes, "blk") /\ holes.blk = PyNone
            /\ StatOrZero(holes, "orb") = 1
            /\ RecordOfRow(m).game_score = 63
            /\ NamedRow(AllRows(games)[k])
            /\ ~HasKey(dnp, "pts")
            /\ RecordOfRow(k).game_score = 0
            /\ InPlayerGames(RecordOfRow(n))
            /\ InPlayerGames(RecordOfRow(m))
            /\ InPlayerGames(RecordOfRow(k))


\* ------------------------------------------------------------------------
\* Claims on the attribution and the order of the runs (SpecRuns, SpecLists)
\* ------------------------------------------------------------------------
\* the rise of the score of the side a play declares since the previous
\* scoring play; a play that declares neither side has none
DeclaredRise(st, play) ==
    IF play.team_side = "away" THEN play.away_score - st.prev_away
    ELSE IF play.team_side = "home" THEN play.home_score - st.prev_home
    ELSE 0

\* a scoring play whose declared side has a non-positive score delta, or
\* that declares no side
AttributionBreak(st, play) == play.scoring_play /\ DeclaredRise(st, play) <= 0

\* the points held by the reported runs and the open run together
RECURSIVE PointsOfRuns(_)
PointsOfRuns(runs) ==
    IF runs = <<>> THEN 0 ELSE Head(runs).points + PointsOfRuns(Tail(runs))

\* C25: a scoring play whose declared side has a non-positive score delta
\* since the previous scoring play, or that declares no side, closes the
\* open run (reported only if it has the threshold), leaves no run open,
\* advances the previous-score snapshot to its scores, adds its points to
\* no run, and raises no error.
C25_AttributionBreakFlushesAndResets ==
    ret.op = "team_scoring_runs" =>
        /\ ret.raised = None
        /\ ret.value = SortByPointsDesc(
                           LET st == RunLoop(engine.plays, Len(engine.plays), ret.arg)
                           IN IF Truthy(st.current_run.team) /\ st.current_run.points >= ret.arg
                              THEN Append(st.runs, st.current_run) ELSE st.runs)
        /\ \A n \in 1..Len(engine.plays) :
             LET before == RunLoop(engine.plays, n - 1, ret.arg)
                 after  == RunLoop(engine.plays, n, ret.arg)
                 play   == engine.plays[n]
             IN AttributionBreak(before, play) =>
                  /\ \/ after.runs = before.runs
                     \/ /\ after.runs = Append(before.runs, before.current_run)
                        /\ before.current_run.points >= ret.arg
                  /\ (Truthy(before.current_run.team)
                         /\ before.current_run.points >= ret.arg) =>
                        after.runs /= before.runs
                  /\ after.current_run = EmptyRun
                  /\ after.prev_away = play.away_score
                  /\ after.prev_home = play.home_score
                  /\ PointsOfRuns(after.runs) + after.current_run.points
                        <= PointsOfRuns(before.runs) + before.current_run.points

\* a home-declared scoring play on which only the away score rose has
\* closed an away run that had the threshold; the run is reported with the
\* score before that play as its end, and the next away basket has opened a
\* run that starts from the scores of that play
C25_Witness ==
    /\ ret.op = "team_scoring_runs"
    /\ ret.raised = None
    /\ \E n \in 2..Len(engine.plays) - 1 :
         LET before == RunLoop(engine.plays, n - 1, ret.arg)
             after  == RunLoop(engine.plays, n, ret.arg)
             next   == RunLoop(engine.plays, n + 1, ret.arg)
             play   == engine.plays[n]
         IN /\ AttributionBreak(before, play)
            /\ play.team_side = "home"
            /\ play.away_score > before.prev_away
            /\ before.current_run.team_side = "away"
            /\ before.current_run.points >= ret.arg
            /\ after.runs = Append(before.runs, before.current_run)
            /\ after.current_run = EmptyRun
            /\ next.current_run.team_side = "away"
            /\ next.current_run.start_score = ScoreStr(play.away_score, play.home_score)
            /\ next.current_run.points = engine.plays[n + 1].away_score - play.away_score
            /\ \E i \in 1..Len(ret.value) :
                  /\ ret.value[i] = before.current_run
                  /\ ret.value[i].end_score = ScoreStr(before.prev_away, before.prev_home)


\* the runs and the streaks in the order in which the loop closed them
RunsAsClosed(plays, min_points) ==
    LET st == RunLoop(plays, Len(plays), min_points)
    IN FlushRun(st.runs, st.current_run, min_points)

StreaksAsClosed(plays, min_points) ==
    LET st == StreakLoop(plays, Len(plays), min_points)
    IN FlushStreak(st.streaks, st.current_streak, min_points)

\* a list only ever grows at its end, by one element at a time
GrowsAtEnd(before, after) ==
    \/ after = before
    \/ Len(after) = Len(before) + 1 /\ SubSeq(after, 1, Len(before)) = before

\* the elements of equal points are in the same order in both lists
SameOrderAmongEqual(sorted, closed) ==
    /\ Len(sorted) = Len(closed)
    /\ \A k \in 1..Len(closed) :
          SelectSeq(sorted, LAMBDA r : r.points = closed[k].points)
             = SelectSeq(closed, LAMBDA r : r.points = closed[k].points)

\* C26: among the reported scoring runs, and among the reported point
\* streaks, of equal points the output keeps the encounter order: the one
\* that ended earlier in the play list comes first.
C26_TiesKeepEncounterOrder ==
    /\ ret.op = "team_scoring_runs" =>
          /\ \A n \in 1..Len(engine.plays) :
                GrowsAtEnd(RunLoop(engine.plays, n - 1, ret.arg).runs,
                           RunLoop(engine.plays, n, ret.arg).runs)
          /\ SameOrderAmongEqual(ret.value, RunsAsClosed(engine.plays, ret.arg))
    /\ ret.op = "player_point_streaks" =>
          /\ \A n \in 1..Len(engine.plays) :
                GrowsAtEnd(StreakLoop(engine.plays, n - 1, ret.arg).streaks,
                           StreakLoop(engine.plays, n, ret.arg).streaks)
          /\ SameOrderAmongEqual(ret.value, StreaksAsClosed(engine.plays, ret.arg))

\* two runs of three points and then one of five: the run of five is
\* listed first and the two runs of three follow in the order of the game
C26_Witness ==
    /\ ret.op = "team_scoring_runs"
    /\ Len(engine.plays) = 4
    /\ LET closed == RunsAsClosed(engine.plays, ret.arg)
       IN /\ Len(closed) = 3
          /\ closed[1].points = 3 /\ closed[2].points = 3 /\ closed[3].points = 5
          /\ closed[1].team_side /= closed[2].team_side
          /\ closed[1].end_score = ScoreStr(engine.plays[1].away_score,
                                            engine.plays[1].home_score)
          /\ closed[2].end_score = ScoreStr(engine.plays[2].away_score,
                                            engine.plays[2].home_score)
          /\ ret.value = <<closed[3], closed[1], closed[2]>>


\* the score of the running side in a snapshot of a run
SideScore(run, snapshot) ==
    IF run.team_side = "away" THEN SnapshotAway(snapshot) ELSE SnapshotHome(snapshot)

\* C27: the points of every reported run equal the running side's score in
\* end_score minus that side's score in start_score, for any play list and
\* any threshold.
C27_RunPointsMatchSnapshots ==
    ret.op = "team_scoring_runs" =>
        /\ ret.raised = None
        /\ \A r \in 1..Len(ret.value) :
              /\ ret.value[r].team_side \in {"away", "home"}
              /\ ret.value[r].points
                   = SideScore(ret.value[r], ret.value[r].end_score)
                       - SideScore(ret.value[r], ret.value[r].start_score)

\* an away run of two baskets that starts at 0-2 and ends at 5-4, the home
\* score having risen on a non-scoring play in between: 5 points
C27_Witness ==
    /\ ret.op = "team_scoring_runs"
    /\ Len(engine.plays) = 4
    /\ ~engine.plays[3].scoring_play
    /\ engine.plays[3].home_score > engine.plays[2].home_score
    /\ \E r \in 1..Len(ret.value) :
          /\ ret.value[r].team_side = "away"
          /\ ret.value[r].points = 5
          /\ ret.value[r].start_score = <<"0", "-", "2">>
          /\ ret.value[r].end_score = <<"5", "-", "4">>


\* ------------------------------------------------------------------------
\* Claim on the decisive shot of a consistent play list (SpecShots)
\* ------------------------------------------------------------------------
\* the rise of a side's score at play n since the play before it
RiseAt(plays, n, side) ==
    IF side = "away"
    THEN plays[n].away_score - (IF n = 1 THEN 0 ELSE plays[n - 1].away_score)
    ELSE plays[n].home_score - (IF n = 1 THEN 0 ELSE plays[n - 1].home_score)

\* every score change occurs on a scoring play declared for the side whose
\* score rose
ConsistentPlays(plays) ==
    \A n \in 1..Len(plays) :
        (RiseAt(plays, n, "away") /= 0 \/ RiseAt(plays, n, "home") /= 0) =>
            /\ plays[n].scoring_play
            /\ \/ /\ plays[n].team_side = "away"
                  /\ RiseAt(plays, n, "away") > 0
                  /\ RiseAt(plays, n, "home") = 0
               \/ /\ plays[n].team_side = "home"
                  /\ RiseAt(plays, n, "home") > 0
                  /\ RiseAt(plays, n, "away") = 0

\* the winning side leads at every play from play n to the end
LeadsFrom(plays, n, side) == \A k \in n..Len(plays) : LeadOf(plays, k, side) > 0

\* C28: for a play list in which every score change occurs on a scoring
\* play declared for the side whose score rose and after whose last play
\* the winning side leads, decisive_shot is present and the winning side's
\* lead is strictly positive at every play from decisive_shot to the end.
C28_WinnerLeadsFromDecisiveShot ==
    (/\ ret.op = "game_winning_shots"
     /\ engine.plays /= <<>>
     /\ ConsistentPlays(engine.plays)
     /\ LeadOf(engine.plays, Len(engine.plays), engine.winner_side) > 0) =>
        /\ ret.raised = None
        /\ Len(ret.value.decisive_shot) = 1
        /\ \E n \in 1..Len(engine.plays) :
              /\ engine.plays[n].scoring_play
              /\ ShotIsPlay(ret.value.decisive_shot[1], engine.plays, n)
        /\ \A n \in 1..Len(engine.plays) :
              (/\ engine.plays[n].scoring_play
               /\ ShotIsPlay(ret.value.decisive_shot[1], engine.plays, n)) =>
                  LeadsFrom(engine.plays, n, engine.winner_side)

\* the lead changed hands twice in a consistent game of four plays: the
\* winner's second go-ahead basket, the third play, is the decisive shot,
\* the winner trailed before it and leads after it and after the last play
C28_Witness ==
    /\ ret.op = "game_winning_shots"
    /\ Len(engine.plays) = 4
    /\ ConsistentPlays(engine.plays)
    /\ LeadOf(engine.plays, 4, engine.winner_side) > 0
    /\ LeadOf(engine.plays, 1, engine.winner_side) > 0
    /\ LeadOf(engine.plays, 2, engine.winner_side) < 0
    /\ Len(ret.value.decisive_shot) = 1
    /\ ShotIsPlay(ret.value.decisive_shot[1], engine.plays, 3)
    /\ ~ShotIsPlay(ret.value.decisive_shot[1], engine.plays, 1)
    /\ LeadsFrom(engine.plays, 3, engine.winner_side)


\* C29: in the players table every player's Wins is at most the player's
\* Games, after any corpus of games: a row adds a win only when it is also
\* counted as a game played.
C29_WinsAtMostGames ==
    (ret.op = "process_all_player_stats" /\ calls = 1) =>
        /\ \A i \in 1..Len(ret.value.players.rows) :
              ret.value.players.rows[i].Wins <= ret.value.players.rows[i].Games
        /\ \A n \in 1..Len(AllRows(games)) :
             LET row == AllRows(games)[n]
                 key == PlayerKey(row.player)
             IN NamedRow(row) =>
                  (TotalsOf(AfterRows(n), key).wins > TotalsOf(AfterRows(n - 1), key).wins
                     => TotalsOf(AfterRows(n), key).games
                           > TotalsOf(AfterRows(n - 1), key).games)


\* ------------------------------------------------------------------------
\* fetch_url (src/nba_processor/scrapers/career_firsts_scraper.py).  The
\* server's answer to a request is an input: a response with a status and
\* a body, or an exception raised by the get (a timeout, a refused
\* connection).  The body is its text followed by padding characters of
\* markup, so that len(content) is Len(text) + padding.
\* ------------------------------------------------------------------------
\* the default of max_retries, and the largest value the model calls with
MaxRetries == 3

\* len(content) < 5000
ShortBody == 5000

FetchResponses ==
    LET Page(status, text, padding) ==
            [status |-> status, text |-> text, padding |-> padding]
        Error(text) == [error |-> text]
        PlayerPage == <<"C", "y", " ", "D", "e", "b", "u", "t", ":", " ",
                            "2", "0", "1", "9">>
        SlowDown == <<"P", "l", "e", "a", "s", "e", " ", "S", "l", "o",
                          "w", " ", "D", "o", "w", "n">>
        Oops == <<"o", "o", "p", "s">>
    IN { Page(200, PlayerPage, 6000),
         \* a short page that asks to slow down, and a long one that
         \* happens to hold the words
         Page(200, SlowDown, 0),
         Page(200, SlowDown, ShortBody),
         Page(429, SlowDown, 0),
         Page(403, Oops, 0),
         Page(404, Oops, 0),
         Page(503, Oops, 0),
         \* a server error whose page holds the words of a rate limit
         Page(500, SlowDown, 0),
         \* requests.exceptions: a timeout, and a refused connection whose
         \* message shows the address of the connection object
         Error(<<"R", "e", "a", "d", " ", "t", "i", "m", "e", "d", " ", "o",
                 "u", "t", ".">>),
         Error(<<"C", "o", "n", "n", "e", "c", "t", "i", "o", "n", " ", "o",
                 "b", "j", "e", "c", "t", " ", "a", "t", " ", "0", "x", "7",
                 "f", "4", "0", "3", "d", "9", "0", ":", " ", "C", "o", "n",
                 "n", "e", "c", "t", "i", "o", "n", " ", "r", "e", "f", "u",
                 "s", "e", "d">>) }

\* rate_limit_indicators (lines 229-232)
rate_limit_indicators ==
    { <<"r", "a", "t", "e", " ", "l", "i", "m", "i", "t">>,
      <<"t", "o", "o", " ", "m", "a", "n", "y", " ", "r", "e", "q", "u",
        "e", "s", "t", "s">>,
      <<"s", "l", "o", "w", " ", "d", "o", "w", "n">>,
      <<"b", "l", "o", "c", "k", "e", "d">>,
      <<"c", "a", "p", "t", "c", "h", "a">>,
      <<"p", "l", "e", "a", "s", "e", " ", "w", "a", "i", "t">>,
      <<"a", "c", "c", "e", "s", "s", " ", "d", "e", "n", "i", "e", "d">> }

\* str(e) of the exception that reaches the last handler: the message of
\* the exception the get raised, or that of the HTTPError of
\* response.raise_for_status(), which starts with the status and ends with
\* the url
FailureText(response) ==
    IF "error" \in DOMAIN response THEN response.error
    ELSE IntStr(response.status)
            \o <<" ", "E", "r", "r", "o", "r", " ", "f", "o",
               "r", " ", "u", "r", "l", ":", " ", "w", "w",
               "w", ".", "b", "a", "s", "k", "e", "t", "b",
               "a", "l", "l", "-", "r", "e", "f", "e", "r",
               "e", "n", "c", "e", ".", "c", "o", "m">>

\* a variant of fetch_attempt that retries after the last attempt too
fetch_attempt_retry_always(response, attempt, max_retries) ==
    LET Failure(error_str) ==
            IF \/ Contains(<<"4", "2", "9">>, error_str)
               \/ Contains(<<"4", "0", "3">>, error_str)
               \/ Contains(<<"f", "o", "r", "b", "i", "d", "d", "e", "n">>, error_str)
            THEN [state |-> "raised", value |-> <<>>, raised |-> "RateLimitError"]
            ELSE [state |-> "attempting", value |-> <<>>, raised |-> None]
        Content(content_lower, length) ==
            IF \E indicator \in rate_limit_indicators :
                  Contains(indicator, content_lower) /\ length < ShortBody
            THEN [state |-> "raised", value |-> <<>>, raised |-> "RateLimitError"]
            ELSE [state |-> "returned", value |-> <<response.text>>, raised |-> None]
    IN IF "error" \in DOMAIN response THEN Failure(LowerStr(FailureText(response)))
       ELSE IF response.status \in {429, 403, 503}
       THEN [state |-> "raised", value |-> <<>>, raised |-> "RateLimitError"]
       ELSE IF response.status = 404
       THEN [state |-> "raised", value |-> <<>>, raised |-> "NotFoundError"]
       ELSE IF 400 <= response.status /\ response.status < 600
       THEN Failure(LowerStr(FailureText(response)))
       ELSE Content(LowerStr(response.text), Len(response.text) + response.padding)

\* one iteration of the loop of fetch_url, from the answer to the request
\* to the raise, the return or the next iteration (lines 203-261).
\* response.raise_for_status() raises HTTPError for a status from 400 to
\* 599, with a message that starts with the status; every exception but
\* RateLimitError and NotFoundError reaches the last handler, which reads
\* str(e).lower()
fetch_attempt(response, attempt, max_retries) ==
    LET Failure(error_str) ==
            IF \/ Contains(<<"4", "2", "9">>, error_str)
               \/ Contains(<<"4", "0", "3">>, error_str)
               \/ Contains(<<"f", "o", "r", "b", "i", "d", "d", "e", "n">>, error_str)
            THEN [state |-> "raised", value |-> <<>>, raised |-> "RateLimitError"]
            ELSE IF attempt < max_retries - 1
            THEN [state |-> "attempting", value |-> <<>>, raised |-> None]
            ELSE [state |-> "returned", value |-> <<>>, raised |-> None]
        Content(content_lower, length) ==
            IF \E indicator \in rate_limit_indicators :
                  Contains(indicator, content_lower) /\ length < ShortBody
            THEN [state |-> "raised", value |-> <<>>, raised |-> "RateLimitError"]
            ELSE [state |-> "returned", value |-> <<response.text>>, raised |-> None]
    IN IF "error" \in DOMAIN response THEN Failure(LowerStr(FailureText(response)))
       ELSE IF response.status \in {429, 403, 503}
       THEN [state |-> "raised", value |-> <<>>, raised |-> "RateLimitError"]
       ELSE IF response.status = 404
       THEN [state |-> "raised", value |-> <<>>, raised |-> "NotFoundError"]
       ELSE IF 400 <= response.status /\ response.status < 600
       THEN Failure(LowerStr(FailureText(response)))
       ELSE Content(LowerStr(response.text), Len(response.text) + response.padding)

\* fetch_url(url, scraper, timeout, max_retries) up to the first request;
\* range(max_retries) is empty for max_retries = 0 and the call returns None
FetchUrl(max_retries) ==
    /\ fetch.state = "idle"
    /\ fetch' = [state |-> IF max_retries > 0 THEN "attempting" ELSE "returned",
                 max_retries |-> max_retries, attempt |-> 0, responses |-> <<>>,
                 slept |-> 0]
    /\ ret' = IF max_retries > 0 THEN ret
              ELSE [op |-> "fetch_url", arg |-> max_retries, value |-> <<>>,
                    raised |-> None]
    /\ UNCHANGED <<espn_pbp, game_data, engine, pc, games, processor, calls>>

\* one request and what the loop does with its answer; a retry sleeps
\* (attempt + 1) * 5 seconds first.  The Optional[str] that is returned is
\* <<>> for None and <<content>> for a page
FetchUrlAttempt ==
    /\ fetch.state = "attempting"
    /\ \E response \in FetchResponses :
          LET outcome == fetch_attempt(response, fetch.attempt, fetch.max_retries)
          IN /\ fetch' = [fetch EXCEPT
                            !.state = outcome.state,
                            !.responses = Append(@, response),
                            !.attempt = IF outcome.state = "attempting" THEN @ + 1 ELSE @,
                            !.slept = IF outcome.state = "attempting"
                                      THEN @ + (fetch.attempt + 1) * 5 ELSE @]
             /\ ret' = IF outcome.state = "attempting" THEN ret
                       ELSE [op |-> "fetch_url", arg |-> fetch.max_retries,
                             value |-> outcome.value, raised |-> outcome.raised]
    /\ UNCHANGED <<espn_pbp, game_data, engine, pc, games, processor, calls>>

InitFetch ==
    /\ espn_pbp = ParsedPbp(<<>>)
    /\ game_data = GameData(0, 0)
    /\ engine = NoEngine
    /\ pc = "new"
    /\ ret = NoRet
    /\ games = <<>>
    /\ processor = NoProcessor
    /\ calls = 0
    /\ fetch = NoFetch

NextFetch ==
    \/ \E max_retries \in 0..MaxRetries : FetchUrl(max_retries)
    \/ FetchUrlAttempt

SpecFetch == InitFetch /\ [][NextFetch]_vars

\* a request is answered or fails within its timeout and a sleep ends, so
\* an iteration of the loop that has begun is completed
FairSpecFetch == SpecFetch /\ WF_vars(FetchUrlAttempt)


\* ------------------------------------------------------------------------
\* Claim on fetch_url (FairSpecFetch)
\* ------------------------------------------------------------------------
\* the answer is a response, not an exception of the get
IsResponse(answer) == "status" \in DOMAIN answer

\* a rate-limit marker in a short body
MarkerInShortBody(answer) ==
    /\ Len(answer.text) + answer.padding < ShortBody
    /\ \E marker \in rate_limit_indicators : Contains(marker, LowerStr(answer.text))

\* a rate-limit response: 429, 403, 503 or a rate-limit marker in a short
\* body
RateLimitResponse(answer) ==
    /\ IsResponse(answer)
    /\ (answer.status \in {429, 403, 503} \/ MarkerInShortBody(answer))

NotFoundResponse(answer) == IsResponse(answer) /\ answer.status = 404

\* a page that is handed back to the caller
GoodResponse(answer) ==
    /\ IsResponse(answer)
    /\ answer.status < 400
    /\ ~MarkerInShortBody(answer)

\* a failed request: an exception of the get, or a status from 400 on
FailedRequest(answer) == ~IsResponse(answer) \/ answer.status >= 400

\* the message of the failure mentions 429, 403 or forbidden
MentionsRateLimit(answer) ==
    \E word \in { <<"4", "2", "9">>, <<"4", "0", "3">>,
                  <<"f", "o", "r", "b", "i", "d", "d", "e", "n">> } :
        Contains(word, LowerStr(FailureText(answer)))

\* what fetch_url has done with the answers it has seen, given which
\* answers count as a rate limit and which as a failure to retry: at most
\* max_retries requests; a rate limit or a 404 raises at once; every
\* earlier answer was a failure that was retried; None once max_retries
\* attempts have failed
FetchFollows(RateLimit(_), Retried(_)) ==
    LET seen == fetch.responses
        last == seen[Len(seen)]
    IN fetch.state /= "idle" =>
         /\ Len(seen) <= fetch.max_retries
         /\ \A k \in 1..(Len(seen) - 1) : Retried(seen[k]) /\ ~RateLimit(seen[k])
         /\ seen = <<>> =>
               IF fetch.max_retries = 0
               THEN fetch.state = "returned" /\ ret.value = <<>> /\ ret.raised = None
               ELSE fetch.state = "attempting"
         /\ seen /= <<>> =>
               /\ RateLimit(last) =>
                     fetch.state = "raised" /\ ret.raised = "RateLimitError"
               /\ (NotFoundResponse(last) /\ ~RateLimit(last)) =>
                     fetch.state = "raised" /\ ret.raised = "NotFoundError"
               /\ (Retried(last) /\ ~RateLimit(last)) =>
                     IF Len(seen) < fetch.max_retries
                     THEN fetch.state = "attempting" /\ fetch.attempt = Len(seen)
                     ELSE /\ fetch.state = "returned"
                          /\ ret.value = <<>> /\ ret.raised = None
               /\ (GoodResponse(last) /\ ~RateLimit(last)) =>
                     /\ fetch.state = "returned"
                     /\ ret.value = <<last.text>> /\ ret.raised = None

\* a failure other than a rate-limit response and a 404
OtherFailure(answer) ==
    FailedRequest(answer) /\ ~RateLimitResponse(answer) /\ ~NotFoundResponse(answer)

\* C30 as stated: fetch_url makes at most max_retries requests; a
\* rate-limit response (429, 403, 503 or a rate-limit marker in a short
\* body) raises RateLimitError and a 404 raises NotFoundError on the
\* attempt that sees it, without any further retry; any other failure is
\* retried, and None is returned once max_retries attempts have failed.
C30_EveryOtherFailureRetried == FetchFollows(RateLimitResponse, OtherFailure)

\* a rate limit as the code takes it: the status 429, 403 or 503, a marker
\* in a short body of a response whose status is below 400, or a failure
\* whose message mentions 429, 403 or forbidden
TakenAsRateLimit(answer) ==
    \/ IsResponse(answer) /\ answer.status \in {429, 403, 503}
    \/ IsResponse(answer) /\ answer.status < 400 /\ MarkerInShortBody(answer)
    \/ FailedRequest(answer) /\ ~NotFoundResponse(answer) /\ MentionsRateLimit(answer)

\* a failure that is retried: an exception of the get or an error status
\* other than 404, 429, 403 and 503
RetriedFailure(answer) == FailedRequest(answer) /\ ~NotFoundResponse(answer)

\* C30: fetch_url always terminates after at most max_retries requests: a
\* status of 429, 403 or 503, a rate-limit marker in a short body of a
\* response that is not an error, and a failure whose message mentions 429,
\* 403 or forbidden raise RateLimitError, and a 404 raises NotFoundError,
\* on the attempt that sees it and without any further retry; any other
\* failure is retried, and None is returned once max_retries attempts have
\* failed.
C30_FetchTerminatesWithinMaxRetries ==
    /\ [](FetchFollows(TakenAsRateLimit, RetriedFailure))
    /\ (fetch.state = "attempting") ~> (fetch.state \in {"returned", "raised"})

\* a call with max_retries 3 has seen a timeout, a server error and a
\* second timeout, has slept 5 and 10 seconds in between, and has
\* returned None after the third request
C30_Witness ==
    /\ fetch.state = "returned"
    /\ fetch.max_retries = 3
    /\ Len(fetch.responses) = 3
    /\ ~IsResponse(fetch.responses[1])
    /\ IsResponse(fetch.responses[2]) /\ fetch.responses[2].status = 500
    /\ ~IsResponse(fetch.responses[3])
    /\ \A k \in 1..3 : ~TakenAsRateLimit(fetch.responses[k])
    /\ fetch.slept = 15
    /\ ret.op = "fetch_url"
    /\ ret.value = <<>>
    /\ ret.raised = None

====
